---------------------------- MODULE Spec2Model ----------------------------
(***************************************************************************)
(* State-machine model of the real-time session core of the AI browser    *)
(* frontend:                                                               *)
(*   - the audio playback scheduler of the Home page (unnamed/part_006),   *)
(*   - the reconnecting voice WebSocket hook (voice-websocket.tsx),        *)
(*   - the streaming proxy route (app/api/query/route.ts),                 *)
(*   - the WebRTC session managers with their candidate batchers           *)
(*     (unnamed/part_007, part_008, part_009, narration-display.tsx).      *)
(* Each component has its own specification over its own variables; the    *)
(* variables of the other components are left unchanged.                   *)
(***************************************************************************)
EXTENDS Integers, Sequences, FiniteSets, TLC

(***************************************************************************)
(* Bounds of the model.                                                    *)
(***************************************************************************)
MaxChunks == 2
MaxTime == 3
MaxSockets == 3
MaxReconnects == 2
MaxRead == 3
MaxStarts == 2
MaxCandidates == 2
MaxSends == 2
MaxHandlerUpdates == 1

(***************************************************************************)
(* State.  Audio playback scheduler: unnamed/part_006, Home().             *)
(***************************************************************************)
VARIABLES
  audioContext,        \* audioContextRef: "none" | "suspended" | "running"
  now,                 \* audioContext.currentTime, in ticks
  audioQueue,          \* audioQueueRef.current: sequence of chunks
  isProcessing,        \* isProcessingAudioQueueRef.current
  nextPlayTime,        \* nextPlayTimeRef.current (Unset = null)
  isPlayingAudio,      \* isPlayingAudioRef.current
  sources,             \* every AudioBufferSourceNode created, in creation order
  activeSources,       \* activeAudioSourcesRef.current: indexes into sources
  drainsSuspended,     \* processAudioQueue calls suspended in `await resume()`
  drainsOrphaned,      \* suspended calls whose context was closed meanwhile
  completeSignals,     \* number of { type: 'audio_playback_complete' } sent
  fedChunks,           \* history: the chunks pushed on the queue so far, in arrival order
  interrupted,         \* history: stopAllAudio has run at least once
  stopFresh,           \* history: stopAllAudio ran and no chunk was queued since
  stopPending          \* history: no unit was scheduled since the last stopAllAudio

audioVars == <<audioContext, now, audioQueue, isProcessing, nextPlayTime,
               isPlayingAudio, sources, activeSources, drainsSuspended,
               drainsOrphaned, completeSignals, fedChunks, interrupted, stopFresh,
               stopPending>>

(***************************************************************************)
(* State.  Control channel: voice-websocket.tsx, useVoiceWebSocket().      *)
(***************************************************************************)
VARIABLES
  isEnabled,                    \* the isEnabled prop of the current render
  reconnectTrigger,             \* useState(0)
  effectDeps,                   \* [isEnabled, reconnectTrigger] of the last effect run
  effectCleanup,                \* the last effect run returned its cleanup (line 168)
  wsRef,                        \* wsRef.current: index into sockets, 0 = null
  sockets,                      \* every WebSocket created: [st, sent]
  reconnectTimeoutRef,          \* 0 = null, else the close code that armed the timer
  connectingRef,                \* connectingRef.current
  intentionallyDisconnectedRef, \* intentionallyDisconnectedRef.current
  isConnected,                  \* useState(false)
  isConnecting,                 \* useState(false)
  userClosed,                   \* history: disabled or disconnect() since the last enable
  wsLast,                       \* history: the last close event and the state it met
  sendCount,                    \* history: calls of sendText/sendMessage so far
  dropped,                      \* history: messages of calls that sent nothing
  pendingTimers,                \* setTimeout timers armed and neither fired nor cleared
  callbacksProps,               \* the handlers passed in the latest render: [v, has]
  callbacksRef,                 \* callbacksRef.current: [v, has]
  handlersAtCreation,           \* history: callbacksRef.current when each socket was created
  dispatched                    \* history: the message the last step dispatched, and to whom

wsVars == <<isEnabled, reconnectTrigger, effectDeps, effectCleanup, wsRef,
            sockets, reconnectTimeoutRef, connectingRef,
            intentionallyDisconnectedRef, isConnected, isConnecting,
            userClosed, wsLast, sendCount, dropped, pendingTimers,
            callbacksProps, callbacksRef, handlersAtCreation, dispatched>>

cbVars == <<callbacksProps, callbacksRef, handlersAtCreation>>

sendHist == <<sendCount, dropped>>

(***************************************************************************)
(* State.  Streaming proxy: app/api/query/route.ts, POST().                *)
(***************************************************************************)
VARIABLES
  upstream,          \* bytes of the backend response body not read yet
  pxPc,              \* where start() is: "fetch" | "read" | "resolved" | "done" | "threw"
  readResult,        \* the settled result of the read the loop continues with
  decoderPending,    \* bytes TextDecoder holds back ({ stream: true })
  buffer,            \* the relay loop's re-assembly buffer
  aborted,           \* backendAbortController.signal.aborted
  backendReader,     \* backendReader !== null
  readerCancelled,   \* backendReader.cancel() was called
  dsWritten,         \* every chunk enqueued on the downstream stream, in order
  dsUnread,          \* enqueued chunks the caller has not pulled yet
  dsState,           \* downstream stream: "readable" | "closing" | "closed" | "cancelled"
  cancelInfo,        \* history: what the cancel callback met ([done |-> FALSE] before)
  failure,           \* history: the upstream failure that was not a cancellation
  chunks             \* history: the values the reads resolved with, in order

proxyVars == <<upstream, pxPc, readResult, decoderPending, buffer, aborted,
               backendReader, readerCancelled, dsWritten, dsUnread, dsState,
               cancelInfo, failure, chunks>>

(***************************************************************************)
(* State.  WebRTC session managers with their candidate batchers:          *)
(* BrowserScreenPanel (unnamed/part_007; BrowserScreenStream in part_008   *)
(* repeats its session code), ExperimentalWebRTCPanel                      *)
(* (narration-display.tsx) and useVoiceWebRTC (unnamed/part_009).          *)
(***************************************************************************)
VARIABLES
  component,            \* which of the session managers is running
  state,                \* useState: "idle" | "connecting" | "connected" | "error"
  errorMessage,         \* useState: "null" or the message shown
  pcRef,                \* pcRef.current: the call that created it, 0 for null
  sessionIdRef,         \* sessionIdRef / pcIdRef .current: session id, 0 for null
  pendingCandidatesRef, \* pendingCandidatesRef.current: sequence of candidates
  flushTimerRef,        \* a debounce timer is pending
  srcObject,            \* media element's srcObject: the call whose remoteStream
                        \* it is, 0 for null
  mediaStreamRef,       \* useVoiceWebRTC: the call whose localStream it is, 0 for null
  eventSourceRef,       \* useVoiceWebRTC: an EventSource is open
  calls,                \* one record per startConnection() call, in call order
  discovered,           \* number of local candidates discovered so far
  lastFlush,            \* history: the last run of flushCandidates
  requests,             \* the candidate requests sent so far, in order, each
                        \* "pending" (in flight), "ok" or "failed"
  rtcIsEnabled,         \* useVoiceWebRTC: the isEnabled prop
  enableEffectDeps,     \* useVoiceWebRTC: isEnabled and state as the effect of
                        \* part_009 252-259 last ran with them
  stoppedBy,            \* history: "disconnect" | "closed" after disconnect() or
                        \* the server's closed event, "none" once the caller
                        \* has changed isEnabled
  connectedBy,          \* history: what last set state to "connected"
  lastCall              \* history: which of startConnection / stopConnection was
                        \* called last: "none" | "start" | "stop" | "stopAgain"
                        \* (stopConnection at least twice since the last start)

rtcVars == <<component, state, errorMessage, pcRef, sessionIdRef,
             pendingCandidatesRef, flushTimerRef, srcObject, mediaStreamRef,
             eventSourceRef, calls, discovered, lastFlush, connectedBy,
             lastCall, requests, rtcIsEnabled, enableEffectDeps, stoppedBy>>

vars == <<audioVars, wsVars, proxyVars, rtcVars>>

\* What the actions of one component leave alone.
notAudio == <<wsVars, proxyVars, rtcVars>>
notWS == <<audioVars, proxyVars, rtcVars>>
notProxy == <<audioVars, wsVars, rtcVars>>
\* The session managers' steps leave the candidate requests alone as well,
\* except the two that name them: FlushTimerFires and FlushSettles.
notSession == <<audioVars, wsVars, proxyVars>>
hookVars == <<rtcIsEnabled, enableEffectDeps, stoppedBy>>
notRTC == <<notSession, requests, hookVars>>

RECURSIVE SumSeq(_)
SumSeq(s) == IF s = <<>> THEN 0 ELSE Head(s) + SumSeq(Tail(s))

Max2(a, b) == IF a < b THEN b ELSE a

(***************************************************************************)
(* ======================  AUDIO PLAYBACK SCHEDULER  ===================== *)
(* unnamed/part_006, Home(): refs audioContextRef, activeAudioSourcesRef,  *)
(* audioQueueRef, isProcessingAudioQueueRef, nextPlayTimeRef.              *)
(***************************************************************************)
\* nextPlayTimeRef = useRef<number | null>(null)
Unset == -1

\* The chunks the voice channel delivers: PCM16 payload size in bytes, channel
\* count and sample rate (samples per tick).
ChunkInputs ==
  { [nbytes |-> 4, numChannels |-> 1, sampleRate |-> 1],
    [nbytes |-> 4, numChannels |-> 2, sampleRate |-> 1],
    [nbytes |-> 8, numChannels |-> 2, sampleRate |-> 2] }

\* samplesPerChannel = audioData.length / (2 * chunk.numChannels)
SamplesPerChannel(chunk) == chunk.nbytes \div (2 * chunk.numChannels)

\* audioBuffer.duration = length / sampleRate
Duration(chunk) == SamplesPerChannel(chunk) \div chunk.sampleRate

\* let currentTime = nextPlayTimeRef.current ?? ctx.currentTime;
\* if (currentTime < ctx.currentTime) currentTime = ctx.currentTime;
StartTimeNoClamp(cursor, clock) == IF cursor = Unset THEN clock ELSE cursor

StartTimeAtClock(cursor, clock) == clock

StartTime(cursor, clock) ==
  IF cursor = Unset THEN clock
  ELSE IF cursor < clock THEN clock ELSE cursor

\* The start of the k-th chunk of queue q when the first starts at t0:
\* source.start(currentTime); currentTime += duration
ChunkStart(q, t0, k) == t0 + SumSeq([j \in 1..(k - 1) |-> Duration(q[j])])

\* The units the while loop creates for queue q, the first starting at t0.
NewSources(q, t0, afterStop) ==
  [k \in 1..Len(q) |->
     [id |-> q[k].id,
      start |-> ChunkStart(q, t0, k),
      end |-> ChunkStart(q, t0, k) + Duration(q[k]),
      at |-> now,
      afterStop |-> (afterStop /\ k = 1),
      st |-> "scheduled"]]

InitAudio ==
  /\ audioContext = "none"
  /\ now = 0
  /\ audioQueue = <<>>
  /\ isProcessing = FALSE
  /\ nextPlayTime = Unset
  /\ isPlayingAudio = FALSE
  /\ sources = <<>>
  /\ activeSources = {}
  /\ drainsSuspended = 0
  /\ drainsOrphaned = 0
  /\ completeSignals = 0
  /\ fedChunks = <<>>
  /\ interrupted = FALSE
  /\ stopFresh = FALSE
  /\ stopPending = FALSE

\* A drain that takes one chunk and releases the guard, leaving the others.
DrainBodyFirstOnly(q) ==
  LET t0 == StartTime(nextPlayTime, now)
      new == NewSources(SubSeq(q, 1, 1), t0, stopPending)
  IN /\ audioQueue' = IF q = <<>> THEN q ELSE Tail(q)
     /\ sources' = sources \o new
     /\ activeSources' = activeSources \cup ((Len(sources) + 1)..(Len(sources) + Len(new)))
     /\ nextPlayTime' = IF q = <<>> THEN nextPlayTime ELSE new[1].end
     /\ isPlayingAudio' = IF q = <<>> THEN isPlayingAudio ELSE TRUE
     /\ stopPending' = IF q = <<>> THEN stopPending ELSE FALSE
     /\ isProcessing' = FALSE

\* The part of processAudioQueue after the await (lines 101-182), run on queue
\* q: the while loop empties the queue synchronously, one unit per chunk, then
\* releases the guard.  The re-invocation through setTimeout (lines 185-191)
\* never happens: the queue is empty when the loop is left.
DrainBody(q) ==
  LET t0 == StartTime(nextPlayTime, now)
      new == NewSources(q, t0, stopPending)
  IN /\ audioQueue' = <<>>
     /\ sources' = sources \o new
     /\ activeSources' = activeSources \cup ((Len(sources) + 1)..(Len(sources) + Len(q)))
     /\ nextPlayTime' = IF q = <<>> THEN nextPlayTime ELSE new[Len(q)].end
     /\ isPlayingAudio' = IF q = <<>> THEN isPlayingAudio ELSE TRUE
     /\ stopPending' = IF q = <<>> THEN stopPending ELSE FALSE
     /\ isProcessing' = FALSE

\* processAudioQueue() called with the queue holding q (lines 89-99).
ProcessAudioQueue(q) ==
  IF isProcessing \/ audioContext = "none"
  THEN /\ audioQueue' = q
       /\ UNCHANGED <<sources, activeSources, nextPlayTime, isPlayingAudio,
                      stopPending, isProcessing, drainsSuspended>>
  ELSE IF audioContext = "suspended"
  THEN /\ audioQueue' = q
       /\ isProcessing' = TRUE
       /\ drainsSuspended' = drainsSuspended + 1
       /\ UNCHANGED <<sources, activeSources, nextPlayTime, isPlayingAudio,
                      stopPending>>
  ELSE /\ DrainBody(q)
       /\ UNCHANGED drainsSuspended

\* playAudioChunk (lines 195-205), called by onAudioChunk.  Without an audio
\* context the chunk is dropped (line 196), so the action needs one.
PlayAudioChunk(c) ==
  /\ UNCHANGED notAudio
  /\ Len(fedChunks) < MaxChunks
  /\ audioContext # "none"
  /\ fedChunks' = Append(fedChunks, c)
  /\ stopFresh' = FALSE
  /\ ProcessAudioQueue(Append(audioQueue,
        [id |-> Len(fedChunks) + 1, nbytes |-> c.nbytes, numChannels |-> c.numChannels,
         sampleRate |-> c.sampleRate]))
  /\ UNCHANGED <<audioContext, now, drainsOrphaned, completeSignals,
                 interrupted>>

\* The continuation of a processAudioQueue call once resume() has resolved:
\* the context is running and the drain goes on at line 101.
DrainResume ==
  /\ UNCHANGED notAudio
  /\ drainsSuspended > 0
  /\ audioContext # "none"
  /\ drainsSuspended' = drainsSuspended - 1
  /\ audioContext' = "running"
  /\ DrainBody(audioQueue)
  /\ UNCHANGED <<now, drainsOrphaned, completeSignals, fedChunks, interrupted,
                 stopFresh>>

\* resume() rejects although the context exists (the audio device could not be
\* acquired): the await of line 98 throws, nothing catches it, and the call
\* ends before line 101.
ResumeRejects ==
  /\ UNCHANGED notAudio
  /\ drainsSuspended > 0
  /\ audioContext # "none"
  /\ drainsSuspended' = drainsSuspended - 1
  /\ UNCHANGED <<audioContext, now, audioQueue, isProcessing, nextPlayTime,
                 isPlayingAudio, sources, activeSources, drainsOrphaned,
                 completeSignals, fedChunks, interrupted, stopFresh,
                 stopPending>>

\* The continuation of a call whose context was closed during the await:
\* resume() rejects, or line 102 dereferences the null audioContextRef; either
\* way the call ends by an exception before line 182.  If a new context exists
\* and the old promise still resolves, the drain goes on with the new context.
OrphanResume ==
  /\ UNCHANGED notAudio
  /\ drainsOrphaned > 0
  /\ drainsOrphaned' = drainsOrphaned - 1
  /\ \/ UNCHANGED <<audioQueue, sources, activeSources, nextPlayTime,
                    isPlayingAudio, stopPending, isProcessing>>
     \/ /\ audioContext # "none"
        /\ DrainBody(audioQueue)
  /\ UNCHANGED <<audioContext, now, drainsSuspended, completeSignals, fedChunks,
                 interrupted, stopFresh>>

\* source.onended (lines 159-174) of unit i: it fires once the unit has played
\* to its end, or after stop() was called on it.
SourceEndedSignalsAlways(i) ==
  /\ UNCHANGED notAudio
  /\ i \in 1..Len(sources)
  /\ \/ sources[i].st = "scheduled" /\ now >= sources[i].end
     \/ sources[i].st = "stopped"
  /\ sources' = [sources EXCEPT ![i].st =
                   IF sources[i].st = "scheduled" THEN "ended" ELSE "stoppedEnded"]
  /\ activeSources' = activeSources \ {i}
  /\ IF activeSources' = {}
     THEN /\ isPlayingAudio' = FALSE
          /\ nextPlayTime' = Unset
          /\ completeSignals' = completeSignals + 1
     ELSE UNCHANGED <<isPlayingAudio, nextPlayTime, completeSignals>>
  /\ UNCHANGED <<audioContext, now, audioQueue, isProcessing, drainsSuspended,
                 drainsOrphaned, fedChunks, interrupted, stopFresh, stopPending>>

SourceEnded(i) ==
  /\ UNCHANGED notAudio
  /\ i \in 1..Len(sources)
  /\ \/ sources[i].st = "scheduled" /\ now >= sources[i].end
     \/ sources[i].st = "stopped"
  /\ sources' = [sources EXCEPT ![i].st =
                   IF sources[i].st = "scheduled" THEN "ended" ELSE "stoppedEnded"]
  /\ activeSources' = activeSources \ {i}
  /\ IF activeSources' = {}
     THEN /\ isPlayingAudio' = FALSE
          /\ IF audioQueue = <<>>
             THEN /\ nextPlayTime' = Unset
                  /\ completeSignals' = completeSignals + 1
             ELSE UNCHANGED <<nextPlayTime, completeSignals>>
     ELSE UNCHANGED <<isPlayingAudio, nextPlayTime, completeSignals>>
  /\ UNCHANGED <<audioContext, now, audioQueue, isProcessing, drainsSuspended,
                 drainsOrphaned, fedChunks, interrupted, stopFresh, stopPending>>

\* The effect of stopAllAudio (lines 72-86) on the scheduler's refs.
StopAllAudioKeepCursor ==
  /\ sources' = [k \in 1..Len(sources) |->
                   IF k \in activeSources /\ sources[k].st = "scheduled"
                   THEN [sources[k] EXCEPT !.st = "stopped"] ELSE sources[k]]
  /\ activeSources' = {}
  /\ isPlayingAudio' = FALSE
  /\ audioQueue' = <<>>
  /\ isProcessing' = FALSE
  /\ nextPlayTime' = nextPlayTime

StopAllAudioEffect ==
  /\ sources' = [k \in 1..Len(sources) |->
                   IF k \in activeSources /\ sources[k].st = "scheduled"
                   THEN [sources[k] EXCEPT !.st = "stopped"] ELSE sources[k]]
  /\ activeSources' = {}
  /\ isPlayingAudio' = FALSE
  /\ audioQueue' = <<>>
  /\ isProcessing' = FALSE
  /\ nextPlayTime' = Unset

\* stopAllAudio called by onInterruption / onUserSpeech (lines 213, 387).
StopAllAudio ==
  /\ UNCHANGED notAudio
  /\ audioContext # "none"
  /\ StopAllAudioEffect
  /\ interrupted' = TRUE
  /\ stopFresh' = TRUE
  /\ stopPending' = TRUE
  /\ UNCHANGED <<audioContext, now, drainsSuspended, drainsOrphaned,
                 completeSignals, fedChunks>>

\* setIsVoiceMode(true): the effect of lines 57-62 creates the AudioContext,
\* suspended or running depending on the browser's autoplay policy.
StartVoiceMode ==
  /\ UNCHANGED notAudio
  /\ audioContext = "none"
  /\ audioContext' \in {"suspended", "running"}
  /\ UNCHANGED <<now, audioQueue, isProcessing, nextPlayTime, isPlayingAudio,
                 sources, activeSources, drainsSuspended, drainsOrphaned,
                 completeSignals, fedChunks, interrupted, stopFresh, stopPending>>

\* handleStopVoiceMode (lines 476-486): stopAllAudio(), then setIsVoiceMode(false)
\* whose effect cleanup (lines 63-68) closes the context.
HandleStopVoiceMode ==
  /\ UNCHANGED notAudio
  /\ audioContext # "none"
  /\ StopAllAudioEffect
  /\ audioContext' = "none"
  /\ drainsOrphaned' = drainsOrphaned + drainsSuspended
  /\ drainsSuspended' = 0
  /\ interrupted' = TRUE
  /\ stopFresh' = TRUE
  /\ stopPending' = TRUE
  /\ UNCHANGED <<now, completeSignals, fedChunks>>

\* The audio clock advances.
Tick ==
  /\ UNCHANGED notAudio
  /\ now < MaxTime
  /\ now' = now + 1
  /\ UNCHANGED <<audioContext, audioQueue, isProcessing, nextPlayTime,
                 isPlayingAudio, sources, activeSources, drainsSuspended,
                 drainsOrphaned, completeSignals, fedChunks, interrupted, stopFresh,
                 stopPending>>

NextAudio ==
  \/ \E c \in ChunkInputs : PlayAudioChunk(c)
  \/ DrainResume
  \/ OrphanResume
  \/ \E i \in 1..MaxChunks : SourceEnded(i)
  \/ StopAllAudio
  \/ StartVoiceMode
  \/ HandleStopVoiceMode
  \/ Tick

(***************************************************************************)
(* ===================  RECONNECTING CONTROL CHANNEL  ==================== *)
(* frontend/components/voice-websocket.tsx, useVoiceWebSocket.             *)
(***************************************************************************)
\* event.code !== 1000 (line 144)
NormalClosure == 1000
\* Close codes a close event carries: normal closure, no status received (the
\* peer answered a close() without code), abnormal closure.
CloseCodes == {NormalClosure, 1005, 1006}

NoDeps == [ran |-> FALSE, isEnabled |-> FALSE, reconnectTrigger |-> 0]
NoClose == [code |-> 0]
NoDispatch == [msg |-> "none"]

\* The optional handlers of VoiceWebSocketProps (lines 15-20).
AllHandlers == {"onUserSpeech", "onAgentResponse", "onStep", "onError",
                "onAudioChunk", "onInterruption"}

\* The handler sets a render passes: all of them, or all but onInterruption.
HandlerSets == {AllHandlers, AllHandlers \ {"onInterruption"}}

\* What a socket's message event carries: JSON with one of the types the
\* ladder of lines 94-116 knows (ready is SocketReady's), JSON with another
\* type, or text JSON.parse rejects.
MessageKinds == {"user_speech", "agent_response", "step", "error",
                 "audio_chunk", "interruption", "unknown", "unparseable"}

InitWS ==
  /\ isEnabled \in BOOLEAN
  /\ reconnectTrigger = 0
  /\ effectDeps = NoDeps
  /\ effectCleanup = FALSE
  /\ wsRef = 0
  /\ sockets = <<>>
  /\ reconnectTimeoutRef = 0
  /\ connectingRef = FALSE
  /\ intentionallyDisconnectedRef = FALSE
  /\ isConnected = FALSE
  /\ isConnecting = FALSE
  /\ userClosed = ~isEnabled
  /\ wsLast = NoClose
  /\ sendCount = 0
  /\ dropped = {}
  /\ pendingTimers = 0
  /\ callbacksProps = [v |-> 0, has |-> AllHandlers]
  /\ callbacksRef = [v |-> 0, has |-> AllHandlers]
  /\ handlersAtCreation = <<>>
  /\ dispatched = NoDispatch

\* ws.close() on socket w of socket list ss: a connecting or open socket starts
\* closing; its close event follows later.
CloseSocket(ss, w) ==
  IF w # 0 /\ ss[w].st \in {"CONNECTING", "OPEN"}
  THEN [ss EXCEPT ![w].st = "CLOSING"]
  ELSE ss

\* if (reconnectTimeoutRef.current) clearTimeout(reconnectTimeoutRef.current)
\* (lines 46-49, 171-174, 198-201) with t timers pending.
Cleared(t, ref) == IF ref # 0 THEN t - 1 ELSE t

\* The parent re-renders the hook with another isEnabled.
SetEnabled(b) ==
  /\ UNCHANGED notWS
  /\ UNCHANGED cbVars
  /\ dispatched' = NoDispatch
  /\ UNCHANGED sendHist
  /\ UNCHANGED pendingTimers
  /\ isEnabled # b
  /\ isEnabled' = b
  /\ userClosed' = ~b
  /\ wsLast' = NoClose
  /\ UNCHANGED <<reconnectTrigger, effectDeps, effectCleanup, wsRef, sockets,
                 reconnectTimeoutRef, connectingRef,
                 intentionallyDisconnectedRef, isConnected, isConnecting>>

\* The effect of lines 39-182, run after a render in which isEnabled or
\* reconnectTrigger changed: first the cleanup the previous run returned
\* (lines 168-181), then the body.
RunEffect ==
  /\ UNCHANGED notWS
  /\ UNCHANGED <<callbacksProps, callbacksRef>>
  /\ dispatched' = NoDispatch
  /\ UNCHANGED sendHist
  /\ pendingTimers' = IF effectCleanup \/ ~isEnabled
                      THEN Cleared(pendingTimers, reconnectTimeoutRef)
                      ELSE pendingTimers
  /\ effectDeps # [ran |-> TRUE, isEnabled |-> isEnabled,
                   reconnectTrigger |-> reconnectTrigger]
  /\ Len(sockets) < MaxSockets
  /\ effectDeps' = [ran |-> TRUE, isEnabled |-> isEnabled,
                    reconnectTrigger |-> reconnectTrigger]
  /\ wsLast' = NoClose
  /\ LET \* after the cleanup of the previous run
         intent1 == IF effectCleanup THEN TRUE ELSE intentionallyDisconnectedRef
         conn1 == IF effectCleanup THEN FALSE ELSE connectingRef
         timer1 == IF effectCleanup THEN 0 ELSE reconnectTimeoutRef
         socks1 == IF effectCleanup THEN CloseSocket(sockets, wsRef) ELSE sockets
         ws1 == IF effectCleanup THEN 0 ELSE wsRef
         isC1 == IF effectCleanup THEN FALSE ELSE isConnected
         isG1 == IF effectCleanup THEN FALSE ELSE isConnecting
     IN IF ~isEnabled
        THEN \* lines 40-54
             /\ intentionallyDisconnectedRef' = TRUE
             /\ sockets' = CloseSocket(socks1, ws1)
             /\ wsRef' = 0
             /\ reconnectTimeoutRef' = 0
             /\ isConnected' = FALSE
             /\ isConnecting' = FALSE
             /\ connectingRef' = FALSE
             /\ effectCleanup' = FALSE
        ELSE LET intent2 == IF intent1 /\ reconnectTrigger = 0
                            THEN FALSE ELSE intent1   \* lines 57-59
             IN /\ intentionallyDisconnectedRef' = intent2
                /\ reconnectTimeoutRef' = timer1
                /\ IF \/ (ws1 # 0 /\ socks1[ws1].st \in {"OPEN", "CONNECTING"})
                      \/ conn1
                   THEN \* lines 62-72: return without a cleanup
                        /\ sockets' = socks1
                        /\ wsRef' = ws1
                        /\ connectingRef' = conn1
                        /\ isConnected' = isC1
                        /\ isConnecting' = isG1
                        /\ effectCleanup' = FALSE
                   ELSE \* lines 74-157: new WebSocket
                        /\ sockets' = Append(socks1, [st |-> "CONNECTING", sent |-> <<>>])
                        /\ wsRef' = Len(socks1) + 1
                        /\ connectingRef' = TRUE
                        /\ isConnected' = isC1
                        /\ isConnecting' = TRUE
                        /\ effectCleanup' = TRUE
  /\ UNCHANGED <<isEnabled, reconnectTrigger, userClosed>>
  /\ handlersAtCreation' = IF Len(sockets') > Len(sockets)
                           THEN Append(handlersAtCreation, callbacksRef)
                           ELSE handlersAtCreation

\* ws.onopen (lines 83-87) of socket w.
SocketOpen(w) ==
  /\ UNCHANGED notWS
  /\ UNCHANGED cbVars
  /\ dispatched' = NoDispatch
  /\ UNCHANGED sendHist
  /\ UNCHANGED pendingTimers
  /\ w \in 1..Len(sockets)
  /\ sockets[w].st = "CONNECTING"
  /\ sockets' = [sockets EXCEPT ![w].st = "OPEN"]
  /\ connectingRef' = FALSE
  /\ isConnected' = TRUE
  /\ isConnecting' = FALSE
  /\ wsLast' = NoClose
  /\ UNCHANGED <<isEnabled, reconnectTrigger, effectDeps, effectCleanup, wsRef,
                 reconnectTimeoutRef, intentionallyDisconnectedRef, userClosed>>

\* ws.onmessage with data.type === "ready" (lines 94-96) on open socket w.
SocketReady(w) ==
  /\ UNCHANGED notWS
  /\ UNCHANGED cbVars
  /\ dispatched' = NoDispatch
  /\ UNCHANGED sendHist
  /\ UNCHANGED pendingTimers
  /\ w \in 1..Len(sockets)
  /\ sockets[w].st = "OPEN"
  /\ isConnected' = TRUE
  /\ wsLast' = NoClose
  /\ UNCHANGED <<isEnabled, reconnectTrigger, effectDeps, effectCleanup, wsRef,
                 sockets, reconnectTimeoutRef, connectingRef,
                 intentionallyDisconnectedRef, isConnecting, userClosed>>

\* ws.onerror (lines 121-128) of socket w; the close event follows.
SocketError(w) ==
  /\ UNCHANGED notWS
  /\ UNCHANGED cbVars
  /\ dispatched' = NoDispatch
  /\ UNCHANGED sendHist
  /\ UNCHANGED pendingTimers
  /\ w \in 1..Len(sockets)
  /\ sockets[w].st \in {"CONNECTING", "OPEN", "CLOSING"}
  /\ connectingRef' = FALSE
  /\ isConnecting' = FALSE
  /\ wsLast' = NoClose
  /\ UNCHANGED <<isEnabled, reconnectTrigger, effectDeps, effectCleanup, wsRef,
                 sockets, reconnectTimeoutRef, intentionallyDisconnectedRef,
                 isConnected, userClosed>>

\* The condition of lines 141-146 under which onclose arms the reconnect
\* timer.  The isEnabled of the closure is the one of the render that created
\* the socket, which is true: sockets are created in the enabled branch only.
ShouldReconnectAnyCode(code) ==
  /\ ~intentionallyDisconnectedRef
  /\ reconnectTimeoutRef = 0

\* An onclose that arms a timer without looking at reconnectTimeoutRef.
ShouldReconnectAnyTimer(code) ==
  /\ ~intentionallyDisconnectedRef
  /\ code # NormalClosure

ShouldReconnect(code) ==
  /\ ~intentionallyDisconnectedRef
  /\ code # NormalClosure
  /\ reconnectTimeoutRef = 0

\* ws.onclose (lines 130-155) of socket w with event.code = code.  A socket
\* that never opened cannot close normally.
SocketClose(w, code) ==
  /\ UNCHANGED notWS
  /\ UNCHANGED cbVars
  /\ dispatched' = NoDispatch
  /\ UNCHANGED sendHist
  /\ pendingTimers' = IF ShouldReconnect(code) THEN pendingTimers + 1
                      ELSE pendingTimers
  /\ w \in 1..Len(sockets)
  /\ sockets[w].st \in {"CONNECTING", "OPEN", "CLOSING"}
  /\ sockets[w].st = "CONNECTING" => code = 1006
  /\ sockets' = [sockets EXCEPT ![w].st = "CLOSED"]
  /\ connectingRef' = FALSE
  /\ isConnected' = FALSE
  /\ isConnecting' = FALSE
  /\ wsRef' = 0
  /\ reconnectTimeoutRef' = IF ShouldReconnect(code) THEN code ELSE reconnectTimeoutRef
  /\ wsLast' = [code |-> code, sock |-> w, current |-> (wsRef = w),
                enabled |-> isEnabled, userClosed |-> userClosed,
                intentional |-> intentionallyDisconnectedRef,
                timer |-> reconnectTimeoutRef, trigger |-> reconnectTrigger,
                nsock |-> Len(sockets)]
  /\ UNCHANGED <<isEnabled, reconnectTrigger, effectDeps, effectCleanup,
                 intentionallyDisconnectedRef, userClosed>>

\* The reconnect timer fires (lines 147-153), 5000 ms after it was armed.
ReconnectTimerFires ==
  /\ UNCHANGED notWS
  /\ UNCHANGED cbVars
  /\ dispatched' = NoDispatch
  /\ UNCHANGED sendHist
  /\ pendingTimers > 0
  /\ pendingTimers' = pendingTimers - 1
  /\ reconnectTrigger < MaxReconnects
  /\ reconnectTimeoutRef' = 0
  /\ reconnectTrigger' = IF ~intentionallyDisconnectedRef /\ wsRef = 0
                         THEN reconnectTrigger + 1 ELSE reconnectTrigger
  /\ wsLast' = NoClose
  /\ UNCHANGED <<isEnabled, effectDeps, effectCleanup, wsRef, sockets,
                 connectingRef, intentionallyDisconnectedRef, isConnected,
                 isConnecting, userClosed>>

\* disconnect() (lines 196-215).
Disconnect ==
  /\ UNCHANGED notWS
  /\ UNCHANGED cbVars
  /\ dispatched' = NoDispatch
  /\ UNCHANGED sendHist
  /\ pendingTimers' = Cleared(pendingTimers, reconnectTimeoutRef)
  /\ intentionallyDisconnectedRef' = TRUE
  /\ reconnectTimeoutRef' = 0
  /\ sockets' = IF wsRef # 0 /\ sockets[wsRef].st = "OPEN"
                THEN CloseSocket([sockets EXCEPT ![wsRef].sent = Append(@, "stop")], wsRef)
                ELSE CloseSocket(sockets, wsRef)
  /\ wsRef' = 0
  /\ isConnected' = FALSE
  /\ isConnecting' = FALSE
  /\ userClosed' = TRUE
  /\ wsLast' = NoClose
  /\ UNCHANGED <<isEnabled, reconnectTrigger, effectDeps, effectCleanup,
                 connectingRef>>

\* The JSON text of the n-th message passed to sendText/sendMessage.
Message(n) == ToString(n)

\* A sender without the readyState test.
TransportSet == wsRef # 0

\* The test both senders make (lines 185, 191).
TransportOpen == wsRef # 0 /\ sockets[wsRef].st = "OPEN"

\* sendText(text) and sendMessage(message) (lines 184-194): the same test,
\* the same send; they differ in the JSON they build.
SendMessage ==
  /\ UNCHANGED notWS
  /\ UNCHANGED cbVars
  /\ dispatched' = NoDispatch
  /\ UNCHANGED pendingTimers
  /\ sendCount < MaxSends
  /\ sendCount' = sendCount + 1
  /\ LET m == Message(sendCount + 1)
     IN IF TransportOpen
        THEN /\ sockets' = [sockets EXCEPT ![wsRef].sent = Append(@, m)]
             /\ dropped' = dropped
        ELSE /\ sockets' = sockets
             /\ dropped' = dropped \cup {m}
  /\ wsLast' = NoClose
  /\ UNCHANGED <<isEnabled, reconnectTrigger, effectDeps, effectCleanup, wsRef,
                 reconnectTimeoutRef, connectingRef,
                 intentionallyDisconnectedRef, isConnected, isConnecting,
                 userClosed>>

\* The hook is rendered with new handler functions (lines 24, 34).  The
\* effect of the render before has run by then.
ReplaceHandlers(has) ==
  /\ UNCHANGED notWS
  /\ callbacksProps.v < MaxHandlerUpdates
  /\ callbacksRef = callbacksProps
  /\ callbacksProps' = [v |-> callbacksProps.v + 1, has |-> has]
  /\ dispatched' = NoDispatch
  /\ wsLast' = NoClose
  /\ UNCHANGED <<isEnabled, reconnectTrigger, effectDeps, effectCleanup, wsRef,
                 sockets, reconnectTimeoutRef, connectingRef,
                 intentionallyDisconnectedRef, isConnected, isConnecting,
                 userClosed, sendCount, dropped, pendingTimers, callbacksRef,
                 handlersAtCreation>>

\* The effect of lines 35-37, run after a render whose handlers changed.
StoreCallbacks ==
  /\ UNCHANGED notWS
  /\ callbacksRef # callbacksProps
  /\ callbacksRef' = callbacksProps
  /\ dispatched' = NoDispatch
  /\ wsLast' = NoClose
  /\ UNCHANGED <<isEnabled, reconnectTrigger, effectDeps, effectCleanup, wsRef,
                 sockets, reconnectTimeoutRef, connectingRef,
                 intentionallyDisconnectedRef, isConnected, isConnecting,
                 userClosed, sendCount, dropped, pendingTimers, callbacksProps,
                 handlersAtCreation>>

\* One branch of the ladder: data.type === type && callbacks[handler].
Branch(msg, callbacks, type, handler) == msg = type /\ handler \in callbacks.has

\* The else-if ladder of lines 94-116 for parsed data of type msg: the
\* handlers it calls, in order.
Ladder(msg, callbacks) ==
  IF msg = "ready" THEN <<>>
  ELSE IF Branch(msg, callbacks, "user_speech", "onUserSpeech")
  THEN <<[h |-> "onUserSpeech", v |-> callbacks.v]>>
  ELSE IF Branch(msg, callbacks, "agent_response", "onAgentResponse")
  THEN <<[h |-> "onAgentResponse", v |-> callbacks.v]>>
  ELSE IF Branch(msg, callbacks, "step", "onStep")
  THEN <<[h |-> "onStep", v |-> callbacks.v]>>
  ELSE IF Branch(msg, callbacks, "error", "onError")
  THEN <<[h |-> "onError", v |-> callbacks.v]>>
  ELSE IF Branch(msg, callbacks, "audio_chunk", "onAudioChunk")
  THEN <<[h |-> "onAudioChunk", v |-> callbacks.v]>>
  ELSE IF Branch(msg, callbacks, "interruption", "onInterruption")
  THEN <<[h |-> "onInterruption", v |-> callbacks.v]>>
  ELSE <<>>

\* A catch block that reports the parse error through onError.
InvokedCatchReports(msg, callbacks) ==
  IF msg = "unparseable"
  THEN <<[h |-> "onError", v |-> callbacks.v]>>
  ELSE Ladder(msg, callbacks)

\* The handlers one message event calls (lines 89-119): JSON.parse throws
\* on text that is not JSON and the catch block only logs.
Invoked(msg, callbacks) ==
  IF msg = "unparseable" THEN <<>> ELSE Ladder(msg, callbacks)

\* A dispatcher bound to the handlers the socket was created with.
CallbacksAtCreation(w) == handlersAtCreation[w]

\* const callbacks = callbacksRef.current (line 92), read at dispatch.
CallbacksAtDispatch(w) == callbacksRef

\* ws.onmessage (lines 89-119) of open socket w for a message other than
\* ready.  A socket that is not open delivers no message.
SocketMessage(w, msg) ==
  /\ UNCHANGED notWS
  /\ w \in 1..Len(sockets)
  /\ sockets[w].st = "OPEN"
  /\ dispatched' = [msg |-> msg, sock |-> w,
                    invoked |-> Invoked(msg, CallbacksAtDispatch(w)),
                    props |-> callbacksProps, stored |-> callbacksRef,
                    atCreation |-> handlersAtCreation[w]]
  /\ wsLast' = NoClose
  /\ UNCHANGED <<isEnabled, reconnectTrigger, effectDeps, effectCleanup, wsRef,
                 sockets, reconnectTimeoutRef, connectingRef,
                 intentionallyDisconnectedRef, isConnected, isConnecting,
                 userClosed, sendCount, dropped, pendingTimers, cbVars>>

NextWS ==
  \/ \E b \in BOOLEAN : SetEnabled(b)
  \/ RunEffect
  \/ \E w \in 1..MaxSockets : SocketOpen(w)
  \/ \E w \in 1..MaxSockets : SocketReady(w)
  \/ \E w \in 1..MaxSockets : SocketError(w)
  \/ \E w \in 1..MaxSockets, code \in CloseCodes : SocketClose(w, code)
  \/ ReconnectTimerFires
  \/ Disconnect
  \/ SendMessage

\* The hook with its handlers replaced and its messages dispatched; what it
\* sends does not bear on either and is left to NextWS.
NextWSMessages ==
  \/ \E b \in BOOLEAN : SetEnabled(b)
  \/ RunEffect
  \/ \E w \in 1..MaxSockets : SocketOpen(w)
  \/ \E w \in 1..MaxSockets : SocketReady(w)
  \/ \E w \in 1..MaxSockets : SocketError(w)
  \/ \E w \in 1..MaxSockets, code \in CloseCodes : SocketClose(w, code)
  \/ ReconnectTimerFires
  \/ Disconnect
  \/ \E has \in HandlerSets : ReplaceHandlers(has)
  \/ StoreCallbacks
  \/ \E w \in 1..MaxSockets, msg \in MessageKinds : SocketMessage(w, msg)

(***************************************************************************)
(* =========================  STREAMING PROXY  =========================== *)
(* frontend/app/api/query/route.ts, POST(): the ReadableStream whose       *)
(* start() relays the backend's event stream and whose cancel() aborts it. *)
(* Bytes are modelled by one-character strings; "e1" "e2" are the two      *)
(* bytes of one two-byte UTF-8 character, "E" the JSON text of the error   *)
(* event of lines 71-74.                                                   *)
(***************************************************************************)

\* line.startsWith("data: "): the prefix, shortened to two characters.
Prefix == <<"d", ":">>

\* The synthetic error event of line 75: `data: ${errorData}\n\n`.
ErrorEvent == Prefix \o <<"E", "\n", "\n">>

\* Response bodies of the backend.
UpstreamInputs ==
  { <<"d", ":", "x", "\n", "d", ":", "\n">>,
    <<"x", "\n", "d", ":", "e1", "e2", "\n">>,
    <<"d", ":", "x", "\n", "\n", "d", ":", "x">>,
    <<>> }

\* decoder.decode(value, { stream: true }) (line 55): bytes to characters,
\* an incomplete character at the end of the chunk held back for the next
\* call; a malformed byte becomes the replacement character "?".
RECURSIVE DecodeBytes(_, _)
DecodeBytes(carry, bytes) ==
  IF bytes = <<>> THEN [text |-> <<>>, carry |-> carry]
  ELSE LET b == Head(bytes)
       IN IF carry # <<>>
          THEN IF b = "e2"
               THEN LET r == DecodeBytes(<<>>, Tail(bytes))
                    IN [text |-> <<"é">> \o r.text, carry |-> r.carry]
               ELSE LET r == DecodeBytes(<<>>, bytes)
                    IN [text |-> <<"?">> \o r.text, carry |-> r.carry]
          ELSE IF b = "e1" THEN DecodeBytes(<<"e1">>, Tail(bytes))
          ELSE LET r == DecodeBytes(<<>>, Tail(bytes))
               IN [text |-> <<(IF b = "e2" THEN "?" ELSE b)>> \o r.text,
                   carry |-> r.carry]

\* buffer.split("\n") (line 56)
RECURSIVE SplitLines(_)
SplitLines(text) ==
  IF \A i \in 1..Len(text) : text[i] # "\n" THEN <<text>>
  ELSE LET i == CHOOSE k \in 1..Len(text) :
                  text[k] = "\n" /\ \A j \in 1..(k - 1) : text[j] # "\n"
       IN <<SubSeq(text, 1, i - 1)>> \o SplitLines(SubSeq(text, i + 1, Len(text)))

\* line.startsWith("data: ") (line 60)
StartsWithData(line) ==
  Len(line) >= Len(Prefix) /\ SubSeq(line, 1, Len(Prefix)) = Prefix

\* A loop that forwards every complete line.
DataLinesUnfiltered(lines) == [k \in 1..Len(lines) |-> lines[k] \o <<"\n">>]

\* The chunks the for loop of lines 59-63 enqueues for the complete lines.
RECURSIVE DataLines(_)
DataLines(lines) ==
  IF lines = <<>> THEN <<>>
  ELSE (IF StartsWithData(Head(lines)) THEN <<Head(lines) \o <<"\n">>>> ELSE <<>>)
       \o DataLines(Tail(lines))

\* ReadableStreamDefaultControllerCanCloseOrEnqueue: enqueue() and close()
\* throw a TypeError unless the stream is readable and close was not requested.
CanCloseOrEnqueue == dsState = "readable"

InitProxy ==
  /\ upstream \in UpstreamInputs
  /\ pxPc = "fetch"
  /\ readResult = [kind |-> "none"]
  /\ decoderPending = <<>>
  /\ buffer = <<>>
  /\ aborted = FALSE
  /\ backendReader = FALSE
  /\ readerCancelled = FALSE
  /\ dsWritten = <<>>
  /\ dsUnread = 0
  /\ dsState = "readable"
  /\ cancelInfo = [done |-> FALSE]
  /\ failure = "none"
  /\ chunks = <<>>

\* controller.close() on a stream that accepts it (lines 66, 77).
CloseDownstream ==
  dsState' = IF dsUnread' = 0 THEN "closed" ELSE "closing"

\* The catch block of lines 67-78 for an error named name.  An enqueue() or a
\* close() that throws inside it ends start() by an exception.
CatchNoErrorEvent(name) ==
  IF CanCloseOrEnqueue
  THEN /\ UNCHANGED <<dsWritten, dsUnread>>
       /\ CloseDownstream
       /\ pxPc' = "done"
  ELSE /\ pxPc' = "threw"
       /\ UNCHANGED <<dsWritten, dsUnread, dsState>>

\* A catch block without the controller.close() of line 77.
CatchNoClose(name) ==
  /\ pxPc' = "done"
  /\ UNCHANGED dsState
  /\ IF name # "AbortError" /\ CanCloseOrEnqueue
     THEN /\ dsWritten' = Append(dsWritten, ErrorEvent)
          /\ dsUnread' = dsUnread + 1
     ELSE UNCHANGED <<dsWritten, dsUnread>>

Catch(name) ==
  IF name = "AbortError"
  THEN IF CanCloseOrEnqueue
       THEN /\ UNCHANGED <<dsWritten, dsUnread>>
            /\ CloseDownstream
            /\ pxPc' = "done"
       ELSE /\ pxPc' = "threw"
            /\ UNCHANGED <<dsWritten, dsUnread, dsState>>
  ELSE IF CanCloseOrEnqueue
       THEN /\ dsWritten' = Append(dsWritten, ErrorEvent)
            /\ dsUnread' = dsUnread + 1
            /\ CloseDownstream
            /\ pxPc' = "done"
       ELSE /\ pxPc' = "threw"
            /\ UNCHANGED <<dsWritten, dsUnread, dsState>>

\* fetch() resolves with an OK response that has a body (lines 31-46).
FetchResolves ==
  /\ UNCHANGED notProxy
  /\ UNCHANGED chunks
  /\ pxPc = "fetch"
  /\ ~aborted
  /\ backendReader' = TRUE
  /\ pxPc' = "read"
  /\ UNCHANGED <<upstream, readResult, decoderPending, buffer, aborted,
                 readerCancelled, dsWritten, dsUnread, dsState, cancelInfo,
                 failure>>

\* The upstream call fails before the relay loop: fetch() rejects ("network"),
\* the response is not OK ("status", line 39) or has no body ("nobody", line 45).
FetchFails(kind) ==
  /\ UNCHANGED notProxy
  /\ UNCHANGED chunks
  /\ pxPc = "fetch"
  /\ ~aborted
  /\ failure' = kind
  /\ Catch("Error")
  /\ UNCHANGED <<upstream, readResult, decoderPending, buffer, aborted,
                 backendReader, readerCancelled, cancelInfo>>

\* fetch() rejects with an AbortError after the signal was aborted.
FetchAborted ==
  /\ UNCHANGED notProxy
  /\ UNCHANGED chunks
  /\ pxPc = "fetch"
  /\ aborted
  /\ Catch("AbortError")
  /\ UNCHANGED <<upstream, readResult, decoderPending, buffer, aborted,
                 backendReader, readerCancelled, cancelInfo, failure>>

\* backendReader.read() (line 52) settles: with the next n bytes, with done at
\* the end of the body, or with an error.  After an abort the pending read
\* rejects with an AbortError, or resolves as done (backendReader.cancel()).
ReadSettles(result) ==
  /\ UNCHANGED notProxy
  /\ chunks' = IF result.kind = "value" THEN Append(chunks, result.bytes)
               ELSE chunks
  /\ pxPc = "read"
  /\ pxPc' = "resolved"
  /\ readResult' = result
  /\ upstream' = IF result.kind = "value"
                 THEN SubSeq(upstream, Len(result.bytes) + 1, Len(upstream))
                 ELSE upstream
  /\ failure' = IF result.kind = "error" /\ result.name = "Error"
                THEN "read" ELSE failure
  /\ UNCHANGED <<decoderPending, buffer, aborted, backendReader,
                 readerCancelled, dsWritten, dsUnread, dsState, cancelInfo>>

ReadValue(n) ==
  /\ ~aborted
  /\ n \in 1..Len(upstream)
  /\ ReadSettles([kind |-> "value", bytes |-> SubSeq(upstream, 1, n)])

ReadDone ==
  /\ upstream = <<>> \/ readerCancelled
  /\ ReadSettles([kind |-> "done"])

ReadFails ==
  /\ ~aborted
  /\ ReadSettles([kind |-> "error", name |-> "Error"])

ReadAborted ==
  /\ aborted
  /\ ReadSettles([kind |-> "error", name |-> "AbortError"])

\* The relay loop goes on after the await of line 52 (lines 53-78).
RelayContinue ==
  /\ UNCHANGED notProxy
  /\ UNCHANGED chunks
  /\ pxPc = "resolved"
  /\ readResult' = [kind |-> "none"]
  /\ IF readResult.kind = "value"
     THEN LET dec == DecodeBytes(decoderPending, readResult.bytes)
              parts == SplitLines(buffer \o dec.text)
              lines == SubSeq(parts, 1, Len(parts) - 1)
              out == DataLines(lines)
          IN /\ decoderPending' = dec.carry
             /\ buffer' = parts[Len(parts)]
             /\ IF out = <<>>
                THEN /\ pxPc' = "read"
                     /\ UNCHANGED <<dsWritten, dsUnread, dsState>>
                ELSE IF CanCloseOrEnqueue
                THEN /\ dsWritten' = dsWritten \o out
                     /\ dsUnread' = dsUnread + Len(out)
                     /\ pxPc' = "read"
                     /\ UNCHANGED dsState
                ELSE Catch("TypeError")
     ELSE IF readResult.kind = "done"
     THEN /\ UNCHANGED <<decoderPending, buffer>>
          /\ IF CanCloseOrEnqueue
             THEN /\ UNCHANGED <<dsWritten, dsUnread>>
                  /\ CloseDownstream
                  /\ pxPc' = "done"
             ELSE Catch("TypeError")
     ELSE /\ UNCHANGED <<decoderPending, buffer>>
          /\ Catch(readResult.name)
  /\ UNCHANGED <<upstream, aborted, backendReader, readerCancelled,
                 cancelInfo, failure>>

\* What cancel() (lines 80-89) does to the upstream call.
CancelNoAbort ==
  /\ aborted' = aborted
  /\ readerCancelled' = backendReader

\* A cancel() that aborts only while start() is still running.
CancelAbortsWhileRunning ==
  /\ aborted' = (aborted \/ pxPc \in {"fetch", "read", "resolved"})
  /\ readerCancelled' = backendReader

CancelUpstream ==
  /\ aborted' = TRUE
  /\ readerCancelled' = backendReader

\* The caller disconnects: the stream is cancelled, its queue dropped, and the
\* cancel() callback runs.  A stream that is already closed has no cancel().
Cancel ==
  /\ UNCHANGED notProxy
  /\ UNCHANGED chunks
  /\ dsState \in {"readable", "closing"}
  /\ CancelUpstream
  /\ dsState' = "cancelled"
  /\ dsUnread' = 0
  /\ cancelInfo' = [done |-> TRUE, pc |-> pxPc, written |-> Len(dsWritten)]
  /\ UNCHANGED <<upstream, pxPc, readResult, decoderPending, buffer,
                 backendReader, dsWritten, failure>>

\* The caller pulls one enqueued chunk.
CallerReads ==
  /\ UNCHANGED notProxy
  /\ UNCHANGED chunks
  /\ dsUnread > 0
  /\ dsState \in {"readable", "closing"}
  /\ dsUnread' = dsUnread - 1
  /\ dsState' = IF dsState = "closing" /\ dsUnread' = 0 THEN "closed" ELSE dsState
  /\ UNCHANGED <<upstream, pxPc, readResult, decoderPending, buffer, aborted,
                 backendReader, readerCancelled, dsWritten, cancelInfo, failure>>

NextProxy ==
  \/ FetchResolves
  \/ \E kind \in {"network", "status", "nobody"} : FetchFails(kind)
  \/ FetchAborted
  \/ \E n \in 1..MaxRead : ReadValue(n)
  \/ ReadDone
  \/ ReadFails
  \/ ReadAborted
  \/ RelayContinue
  \/ Cancel
  \/ CallerReads

(***************************************************************************)
(* ==========  WEBRTC SESSION MANAGERS AND CANDIDATE BATCHERS  =========== *)
(* BrowserScreenPanel (unnamed/part_007), BrowserScreenStream (part_008),  *)
(* ExperimentalWebRTCPanel (narration-display.tsx lines 59-199) and        *)
(* useVoiceWebRTC (unnamed/part_009).                                      *)
(* A startConnection() call is a record of calls: where it is suspended    *)
(* (the operation it awaits), the RTCPeerConnection it created, and the    *)
(* tracks of its local stream and of its remoteStream.  The backend's      *)
(* session id for the offer of call k is k.                                *)
(***************************************************************************)
Components ==
  {"BrowserScreenPanel", "BrowserScreenStream", "ExperimentalWebRTCPanel",
   "useVoiceWebRTC"}

\* The two screen-stream components share their session code: part_008 109-205
\* repeats part_007 80-153 (its setParameters await is skipped, the
\* receive-only connection having no sender with a video track).
ScreenStream == component \in {"BrowserScreenPanel", "BrowserScreenStream"}

NoFlush == [ran |-> FALSE]

InitRTC ==
  /\ component \in Components
  /\ state = "idle"
  /\ errorMessage = "null"
  /\ pcRef = 0
  /\ sessionIdRef = 0
  /\ pendingCandidatesRef = <<>>
  /\ flushTimerRef = FALSE
  /\ srcObject = 0
  /\ mediaStreamRef = 0
  /\ eventSourceRef = FALSE
  /\ calls = <<>>
  /\ discovered = 0
  /\ lastFlush = NoFlush
  /\ requests = <<>>
  /\ rtcIsEnabled = TRUE
  /\ enableEffectDeps = [ran |-> FALSE]
  /\ stoppedBy = "none"
  /\ connectedBy = "none"
  /\ lastCall = "none"

\* The state and refs of the session manager that stopConnection() works on.
Session ==
  [state |-> state, errorMessage |-> errorMessage, pcRef |-> pcRef,
   sessionIdRef |-> sessionIdRef, flushTimerRef |-> flushTimerRef,
   srcObject |-> srcObject, mediaStreamRef |-> mediaStreamRef,
   eventSourceRef |-> eventSourceRef, calls |-> calls]

\* The calls after stopConnection(): pc.close() on pcRef.current, preceded in
\* the two microphone components by sender.track.stop(); in useVoiceWebRTC the
\* tracks of mediaStreamRef.current; the tracks of the element's srcObject.
StoppedCallsOf(s) ==
  [k \in 1..Len(s.calls) |->
     [s.calls[k] EXCEPT
        !.pc = IF k = s.pcRef /\ @ = "open" THEN "closed" ELSE @,
        !.local = IF /\ @ = "live"
                     /\ \/ ~ScreenStream /\ k = s.pcRef
                        \/ component = "useVoiceWebRTC" /\ k = s.mediaStreamRef
                  THEN "stopped" ELSE @,
        !.remote = IF @ = "live" /\ k = s.srcObject THEN "stopped" ELSE @]]

StoppedCalls == StoppedCallsOf(Session)

StopKeepsTimer(s) ==
  [state |-> "idle", errorMessage |-> "null", pcRef |-> 0, sessionIdRef |-> 0,
   flushTimerRef |-> s.flushTimerRef, srcObject |-> 0, mediaStreamRef |-> 0,
   eventSourceRef |-> FALSE, calls |-> StoppedCallsOf(s)]

StopKeepsMessage(s) ==
  [state |-> "idle", errorMessage |-> s.errorMessage, pcRef |-> 0,
   sessionIdRef |-> 0, flushTimerRef |-> FALSE, srcObject |-> 0,
   mediaStreamRef |-> 0, eventSourceRef |-> FALSE, calls |-> StoppedCallsOf(s)]

\* stopConnection() as a function of the state it is called in: part_007 58-78,
\* narration-display.tsx 89-110, part_009 77-110.  None of its calls throws:
\* clearTimeout, close() on a closed connection and stop() on a stopped track
\* do nothing.
StopOf(s) ==
  [state |-> "idle", errorMessage |-> "null", pcRef |-> 0, sessionIdRef |-> 0,
   flushTimerRef |-> FALSE, srcObject |-> 0, mediaStreamRef |-> 0,
   eventSourceRef |-> FALSE, calls |-> StoppedCallsOf(s)]

\* stopConnection() without its effect on calls, pcRef, srcObject and state
\* (which StartConnection sets further).
StopConnectionRefs ==
  /\ flushTimerRef' = StopOf(Session).flushTimerRef
  /\ eventSourceRef' = StopOf(Session).eventSourceRef
  /\ mediaStreamRef' = StopOf(Session).mediaStreamRef
  /\ errorMessage' = StopOf(Session).errorMessage
  /\ sessionIdRef' = StopOf(Session).sessionIdRef

\* stopConnection().
StopConnectionEffect ==
  /\ StopConnectionRefs
  /\ pcRef' = StopOf(Session).pcRef
  /\ srcObject' = StopOf(Session).srcObject
  /\ state' = StopOf(Session).state
  /\ calls' = StopOf(Session).calls
  /\ lastCall' = IF lastCall \in {"stop", "stopAgain"} THEN "stopAgain" ELSE "stop"
  /\ UNCHANGED <<component, pendingCandidatesRef, discovered, lastFlush, connectedBy>>

\* The Stop button, the unmount cleanup, disconnect().
StopConnection ==
  /\ UNCHANGED notRTC
  /\ StopConnectionEffect

\* The first record of a call.  BrowserScreenPanel awaits the ICE servers before
\* it creates the RTCPeerConnection (part_007 86-89); the other two create it
\* before their first await (narration-display.tsx 117, part_009 119).
NewCall ==
  IF ScreenStream
  THEN [pos |-> "getJSON", pc |-> "none", conn |-> "new", local |-> "none",
        remote |-> "none", offered |-> FALSE, openAtOffer |-> {},
        liveAtOffer |-> {}]
  ELSE [pos |-> "getUserMedia", pc |-> "open", conn |-> "new", local |-> "none",
        remote |-> "none", offered |-> FALSE, openAtOffer |-> {},
        liveAtOffer |-> {}]

\* Who may call startConnection(): the Start button, disabled while state is
\* "connecting" (part_007 173, narration-display.tsx 188); in
\* BrowserScreenStream the auto-connect effect, once (part_008 207-211), and
\* the Retry button shown with an error (part_008 245-254); in useVoiceWebRTC
\* the effect of part_009 252-254, for an enabled hook in state "idle".
MayStart ==
  IF component = "useVoiceWebRTC" THEN state = "idle"
  ELSE IF component = "BrowserScreenStream"
       THEN calls = <<>> \/ (state = "error" /\ errorMessage # "null")
       ELSE state # "connecting"

\* startConnection() up to its first await.
StartConnectionEffect ==
  /\ Len(calls) < MaxStarts
  /\ StopConnectionRefs
  /\ state' = "connecting"
  /\ lastCall' = "start"
  /\ calls' = Append(StoppedCalls, NewCall)
  /\ pcRef' = IF NewCall.pc = "open" THEN Len(calls) + 1 ELSE 0
  /\ srcObject' = IF NewCall.pc = "open" THEN Len(calls) + 1 ELSE 0
  /\ UNCHANGED <<component, pendingCandidatesRef, discovered, lastFlush, connectedBy>>

\* startConnection() called by whoever may call it.
StartConnection ==
  /\ UNCHANGED notRTC
  /\ MayStart
  /\ StartConnectionEffect

\* The catch block of call k: part_007 149-152, narration-display.tsx 163-167,
\* part_009 240-248 (which has no message state).
CatchStart(k, c) ==
  /\ calls' = [c EXCEPT ![k].pos = "caught"]
  /\ state' = "error"
  /\ errorMessage' = IF component = "useVoiceWebRTC" THEN errorMessage ELSE "Error"

\* Call k goes on to await op.
Proceed(k, c, op) ==
  /\ calls' = [c EXCEPT ![k].pos = op]
  /\ UNCHANGED <<state, errorMessage>>

\* BrowserScreenPanel: the ICE servers request settles (part_007 86-130).
GetJSONSettles(k, ok) ==
  /\ UNCHANGED notRTC
  /\ ScreenStream
  /\ calls[k].pos = "getJSON"
  /\ IF ok
     THEN /\ Proceed(k, [calls EXCEPT ![k].pc = "open"], "createOffer")
          /\ pcRef' = k
          /\ srcObject' = k
     ELSE /\ CatchStart(k, calls)
          /\ UNCHANGED <<pcRef, srcObject>>
  /\ UNCHANGED <<component, lastCall, sessionIdRef, pendingCandidatesRef, flushTimerRef,
                 mediaStreamRef, eventSourceRef, discovered, lastFlush, connectedBy>>

\* getUserMedia settles (narration-display.tsx 146-149, part_009 168-175);
\* addTrack throws InvalidStateError on a closed connection.
GetUserMediaSettles(k, ok) ==
  /\ UNCHANGED notRTC
  /\ ~ScreenStream
  /\ calls[k].pos = "getUserMedia"
  /\ IF ok
     THEN /\ mediaStreamRef' = IF component = "useVoiceWebRTC" THEN k
                               ELSE mediaStreamRef
          /\ IF calls[k].pc = "open"
             THEN Proceed(k, [calls EXCEPT ![k].local = "live"], "createOffer")
             ELSE CatchStart(k, [calls EXCEPT ![k].local = "live"])
     ELSE /\ CatchStart(k, calls)
          /\ UNCHANGED mediaStreamRef
  /\ UNCHANGED <<component, lastCall, pcRef, sessionIdRef, pendingCandidatesRef,
                 flushTimerRef, srcObject, eventSourceRef, discovered,
                 lastFlush, connectedBy>>

\* createOffer settles; setLocalDescription is called (part_007 130-134).
CreateOfferSettles(k) ==
  /\ UNCHANGED notRTC
  /\ calls[k].pos = "createOffer"
  /\ IF calls[k].pc = "open"
     THEN Proceed(k, calls, "setLocalDescription")
     ELSE CatchStart(k, calls)
  /\ UNCHANGED <<component, lastCall, pcRef, sessionIdRef, pendingCandidatesRef,
                 flushTimerRef, srcObject, mediaStreamRef, eventSourceRef,
                 discovered, lastFlush, connectedBy>>

\* The earlier calls whose connection is open, and those with a live track.
OpenBefore(k) == {j \in 1..(k - 1) : calls[j].pc = "open"}
LiveBefore(k) ==
  {j \in 1..(k - 1) : calls[j].local = "live" \/ calls[j].remote = "live"}

\* setLocalDescription settles; the offer is posted (part_007 134-140).
SetLocalDescriptionSettles(k) ==
  /\ UNCHANGED notRTC
  /\ calls[k].pos = "setLocalDescription"
  /\ IF calls[k].pc = "open"
     THEN Proceed(k, [calls EXCEPT ![k].offered = TRUE,
                                   ![k].openAtOffer = OpenBefore(k),
                                   ![k].liveAtOffer = LiveBefore(k)],
                  "postJSON")
     ELSE CatchStart(k, calls)
  /\ UNCHANGED <<component, lastCall, pcRef, sessionIdRef, pendingCandidatesRef,
                 flushTimerRef, srcObject, mediaStreamRef, eventSourceRef,
                 discovered, lastFlush, connectedBy>>

\* The offer request settles; on an answer the session id is stored and
\* setRemoteDescription is called (part_007 137-148).
PostOfferSettles(k, ok) ==
  /\ UNCHANGED notRTC
  /\ calls[k].pos = "postJSON"
  /\ IF ok
     THEN /\ sessionIdRef' = k
          /\ Proceed(k, calls, "setRemoteDescription")
     ELSE /\ CatchStart(k, calls)
          /\ UNCHANGED sessionIdRef
  /\ UNCHANGED <<component, lastCall, pcRef, pendingCandidatesRef, flushTimerRef,
                 srcObject, mediaStreamRef, eventSourceRef, discovered,
                 lastFlush, connectedBy>>

\* What startConnection() does once the answer is applied: nothing more in
\* BrowserScreenPanel (part_007 148); setState("connected") in
\* ExperimentalWebRTCPanel (narration-display.tsx 162) and, after opening the
\* EventSource, in useVoiceWebRTC (part_009 192-238).
AfterAnswerApplied ==
  IF ScreenStream
  THEN UNCHANGED <<state, connectedBy, eventSourceRef>>
  ELSE /\ state' = "connected"
       /\ connectedBy' = "answer"
       /\ eventSourceRef' = (component = "useVoiceWebRTC" \/ eventSourceRef)

\* setRemoteDescription settles: it rejects on a closed connection and on an
\* answer the connection does not accept (~ok).  Applying the answer fires
\* pc.ontrack, which adds the remote tracks to the call's remoteStream
\* (part_007 98-102), before the promise resolves.
SetRemoteDescriptionSettles(k, ok) ==
  /\ UNCHANGED notRTC
  /\ calls[k].pos = "setRemoteDescription"
  /\ IF calls[k].pc = "open" /\ ok
     THEN /\ calls' = [calls EXCEPT ![k].pos = "done", ![k].remote = "live"]
          /\ AfterAnswerApplied
          /\ UNCHANGED errorMessage
     ELSE /\ CatchStart(k, calls)
          /\ UNCHANGED <<connectedBy, eventSourceRef>>
  /\ UNCHANGED <<component, lastCall, pcRef, sessionIdRef, pendingCandidatesRef,
                 flushTimerRef, srcObject, mediaStreamRef, discovered,
                 lastFlush>>

\* Call k's connection has a local description and is open: it gathers
\* candidates whatever became of the call that created it.
Gathering(k) ==
  /\ calls[k].pc = "open"
  /\ calls[k].offered

\* pc.onicecandidate with a candidate (part_007 104-118): push, restart the timer.
IceCandidate(k) ==
  /\ UNCHANGED notRTC
  /\ Gathering(k)
  /\ discovered < MaxCandidates
  /\ discovered' = discovered + 1
  /\ pendingCandidatesRef' =
       Append(pendingCandidatesRef,
              [id |-> discovered + 1, pc |-> k, sid |-> sessionIdRef])
  /\ flushTimerRef' = TRUE
  /\ UNCHANGED <<component, lastCall, state, errorMessage, pcRef, sessionIdRef, srcObject,
                 mediaStreamRef, eventSourceRef, calls, lastFlush,
                 connectedBy>>

\* The candidates a flush request carries: candidates[0] in BrowserScreenPanel
\* (part_007 54), all of them in the other two (narration-display.tsx 81-85).
Payload(candidates) ==
  IF ScreenStream THEN <<candidates[1]>> ELSE candidates

LeftPendingKeeps(candidates) == candidates

\* What flushCandidates leaves in pendingCandidatesRef: splice(0) empties it
\* before the session id is looked at (part_007 48-51).
LeftPending(candidates) == <<>>

\* The requests one run of flushCandidates sends (part_007 47-56).
FlushRequests(candidates) ==
  IF candidates = <<>> \/ sessionIdRef = 0
  THEN <<>>
  ELSE <<[session |-> sessionIdRef, candidates |-> Payload(candidates)]>>

\* postJSON is awaited (part_007 52): the requests are under way when
\* flushCandidates returns its promise.
InFlight(sent) ==
  [r \in 1..Len(sent) |->
     [session |-> sent[r].session, candidates |-> sent[r].candidates,
      st |-> "pending"]]

\* The debounce timer fires (part_007 112-117) and flushCandidates runs.
FlushTimerFires ==
  /\ UNCHANGED <<notSession, hookVars>>
  /\ flushTimerRef
  /\ flushTimerRef' = FALSE
  /\ pendingCandidatesRef' = LeftPending(pendingCandidatesRef)
  /\ lastFlush' = [ran |-> TRUE, session |-> sessionIdRef,
                   batch |-> pendingCandidatesRef,
                   left |-> pendingCandidatesRef',
                   sent |-> FlushRequests(pendingCandidatesRef)]
  /\ requests' = requests \o InFlight(FlushRequests(pendingCandidatesRef))
  /\ UNCHANGED <<component, lastCall, state, errorMessage, pcRef, sessionIdRef, srcObject,
                 mediaStreamRef, eventSourceRef, calls, discovered, connectedBy>>

RequeuedOnFailure(r) == requests[r].candidates

\* What a rejected request leaves of its batch in pendingCandidatesRef: the
\* batch was spliced out before the request, and neither catch puts it back.
Requeued(r) == <<>>

\* Request r settles.  A rejection ends in .catch of the timer callback, which
\* logs or does nothing (part_007 114-116, part_008 151-153,
\* narration-display.tsx 139-141), in useVoiceWebRTC in the catch of
\* flushCandidates itself (part_009 72-74).
FlushSettles(r, ok) ==
  /\ UNCHANGED <<notSession, hookVars>>
  /\ requests[r].st = "pending"
  /\ requests' = [requests EXCEPT ![r].st = IF ok THEN "ok" ELSE "failed"]
  /\ pendingCandidatesRef' =
       IF ok THEN pendingCandidatesRef
       ELSE pendingCandidatesRef \o Requeued(r)
  /\ UNCHANGED <<component, lastCall, state, errorMessage, pcRef, sessionIdRef,
                 flushTimerRef, srcObject, mediaStreamRef, eventSourceRef,
                 calls, discovered, lastFlush, connectedBy>>

\* The transport of call k, the answer applied, reports a connection state:
\* onconnectionstatechange
\* in BrowserScreenPanel (part_007 120-127), oniceconnectionstatechange in
\* useVoiceWebRTC (part_009 155-165), no handler in ExperimentalWebRTCPanel.
ConnectionStateChange(k, s) ==
  /\ UNCHANGED notRTC
  /\ calls[k].pc = "open"
  /\ calls[k].pos = "done"
  /\ \/ calls[k].conn = "new"
     \/ calls[k].conn = "connected" /\ s = "failed"
  /\ calls' = [calls EXCEPT ![k].conn = s]
  /\ IF s = "connected" /\ ScreenStream
     THEN /\ state' = "connected"
          /\ connectedBy' = "transport"
          /\ UNCHANGED errorMessage
     ELSE IF s = "failed" /\ component # "ExperimentalWebRTCPanel"
          THEN /\ state' = "error"
               /\ errorMessage' = IF ScreenStream
                                  THEN "Connection failed" ELSE errorMessage
               /\ UNCHANGED connectedBy
          ELSE UNCHANGED <<state, errorMessage, connectedBy>>
  /\ UNCHANGED <<component, lastCall, pcRef, sessionIdRef, pendingCandidatesRef,
                 flushTimerRef, srcObject, mediaStreamRef, eventSourceRef,
                 discovered, lastFlush>>

\* useVoiceWebRTC: the event stream delivers "closed" (part_009 220-223).
ServerClosed ==
  /\ UNCHANGED notRTC
  /\ component = "useVoiceWebRTC"
  /\ eventSourceRef
  /\ StopConnectionEffect

\* What the effect of part_009 252-259 depends on, as this render has it.
EnableDeps == [ran |-> TRUE, isEnabled |-> rtcIsEnabled, state |-> state]

\* useVoiceWebRTC: the caller renders the hook with another isEnabled.
SetRTCEnabled(b) ==
  /\ UNCHANGED <<notSession, requests>>
  /\ component = "useVoiceWebRTC"
  /\ b # rtcIsEnabled
  /\ rtcIsEnabled' = b
  /\ stoppedBy' = "none"
  /\ UNCHANGED <<component, state, errorMessage, pcRef, sessionIdRef,
                 pendingCandidatesRef, flushTimerRef, srcObject, mediaStreamRef,
                 eventSourceRef, calls, discovered, lastFlush, connectedBy,
                 lastCall, enableEffectDeps>>

\* useVoiceWebRTC: the effect of part_009 252-259 runs, on mount and after a
\* render in which isEnabled or state has changed.
EnableEffect ==
  /\ UNCHANGED <<notSession, requests, rtcIsEnabled, stoppedBy>>
  /\ component = "useVoiceWebRTC"
  /\ enableEffectDeps # EnableDeps
  /\ enableEffectDeps' = EnableDeps
  /\ IF rtcIsEnabled /\ state = "idle"
     THEN StartConnectionEffect
     ELSE IF ~rtcIsEnabled /\ state # "idle"
          THEN StopConnectionEffect
          ELSE UNCHANGED <<component, state, errorMessage, pcRef, sessionIdRef,
                          pendingCandidatesRef, flushTimerRef, srcObject,
                          mediaStreamRef, eventSourceRef, calls, discovered,
                          lastFlush, connectedBy, lastCall>>

\* useVoiceWebRTC: disconnect() (part_009 269-272), which the caller has once
\* the hook is mounted.
DisconnectHook ==
  /\ UNCHANGED <<notSession, requests, rtcIsEnabled, enableEffectDeps>>
  /\ component = "useVoiceWebRTC"
  /\ enableEffectDeps.ran
  /\ StopConnectionEffect
  /\ stoppedBy' = "disconnect"

\* useVoiceWebRTC: the event stream delivers "closed" (part_009 220-223).
ServerClosedHook ==
  /\ UNCHANGED <<notSession, requests, rtcIsEnabled, enableEffectDeps>>
  /\ component = "useVoiceWebRTC"
  /\ eventSourceRef
  /\ StopConnectionEffect
  /\ stoppedBy' = "closed"

\* useVoiceWebRTC with its isEnabled prop: connections are started by the
\* effect only.
NextRTCHook ==
  \/ \E b \in BOOLEAN : SetRTCEnabled(b)
  \/ EnableEffect
  \/ DisconnectHook
  \/ ServerClosedHook
  \/ \E k \in 1..Len(calls), ok \in BOOLEAN : GetUserMediaSettles(k, ok)
  \/ \E k \in 1..Len(calls) : CreateOfferSettles(k)
  \/ \E k \in 1..Len(calls) : SetLocalDescriptionSettles(k)
  \/ \E k \in 1..Len(calls), ok \in BOOLEAN : PostOfferSettles(k, ok)
  \/ \E k \in 1..Len(calls), ok \in BOOLEAN : SetRemoteDescriptionSettles(k, ok)
  \/ \E k \in 1..Len(calls) : IceCandidate(k)
  \/ FlushTimerFires
  \/ \E k \in 1..Len(calls), s \in {"connected", "failed"} :
       ConnectionStateChange(k, s)

NextRTC ==
  \/ StartConnection
  \/ StopConnection
  \/ \E k \in 1..Len(calls), ok \in BOOLEAN : GetJSONSettles(k, ok)
  \/ \E k \in 1..Len(calls), ok \in BOOLEAN : GetUserMediaSettles(k, ok)
  \/ \E k \in 1..Len(calls) : CreateOfferSettles(k)
  \/ \E k \in 1..Len(calls) : SetLocalDescriptionSettles(k)
  \/ \E k \in 1..Len(calls), ok \in BOOLEAN : PostOfferSettles(k, ok)
  \/ \E k \in 1..Len(calls), ok \in BOOLEAN : SetRemoteDescriptionSettles(k, ok)
  \/ \E k \in 1..Len(calls) : IceCandidate(k)
  \/ FlushTimerFires
  \/ \E k \in 1..Len(calls), s \in {"connected", "failed"} :
       ConnectionStateChange(k, s)
  \/ ServerClosed

\* The candidate batcher with its requests settling: the steps of NextRTC that
\* start, stop and carry on a call and discover candidates, and the requests'
\* outcomes.
NextRTCFlush ==
  \/ StartConnection
  \/ StopConnection
  \/ \E k \in 1..Len(calls), ok \in BOOLEAN : GetJSONSettles(k, ok)
  \/ \E k \in 1..Len(calls), ok \in BOOLEAN : GetUserMediaSettles(k, ok)
  \/ \E k \in 1..Len(calls) : CreateOfferSettles(k)
  \/ \E k \in 1..Len(calls) : SetLocalDescriptionSettles(k)
  \/ \E k \in 1..Len(calls), ok \in BOOLEAN : PostOfferSettles(k, ok)
  \/ \E k \in 1..Len(calls), ok \in BOOLEAN : SetRemoteDescriptionSettles(k, ok)
  \/ \E k \in 1..Len(calls) : IceCandidate(k)
  \/ FlushTimerFires
  \/ \E r \in 1..Len(requests), ok \in BOOLEAN : FlushSettles(r, ok)

(***************************************************************************)
(* Specifications: one per component.                                      *)
(***************************************************************************)
\* A component that is not the one a specification is about stays in one
\* initial state.
RestAudio == InitAudio
RestWS == InitWS /\ ~isEnabled
RestProxy == InitProxy /\ upstream = <<>>
RestRTC == InitRTC /\ component = "BrowserScreenPanel"

InitSpecAudio == InitAudio /\ RestWS /\ RestProxy /\ RestRTC
InitSpecWS == InitWS /\ RestAudio /\ RestProxy /\ RestRTC
InitSpecProxy == InitProxy /\ RestAudio /\ RestWS /\ RestRTC
InitSpecRTC == InitRTC /\ RestAudio /\ RestWS /\ RestProxy

SpecAudio == InitSpecAudio /\ [][NextAudio]_vars

\* The scheduler with a context that does resume: the promise of resume()
\* (line 98) resolves while the context exists, and the suspended call then
\* goes on.
SpecAudioFair == SpecAudio /\ WF_vars(DrainResume)

\* The scheduler with a context whose resume() may also reject.
NextAudioRejects == NextAudio \/ ResumeRejects

SpecAudioRejects == InitSpecAudio /\ [][NextAudioRejects]_vars

SpecWS == InitSpecWS /\ [][NextWS]_vars

SpecWSMessages == InitSpecWS /\ [][NextWSMessages]_vars

SpecProxy == InitSpecProxy /\ [][NextProxy]_vars

\* A step of start(): the upstream call or a read settles, or the code after
\* an await runs.  Cancel and CallerReads are the caller's steps.
StartStep ==
  \/ FetchResolves
  \/ \E kind \in {"network", "status", "nobody"} : FetchFails(kind)
  \/ FetchAborted
  \/ \E n \in 1..MaxRead : ReadValue(n)
  \/ ReadDone
  \/ ReadFails
  \/ ReadAborted
  \/ RelayContinue

\* The proxy with an upstream call that settles: fetch() and every read()
\* resolve or reject in the end, and the event loop then runs the
\* continuation of the await.  Nothing is assumed of the caller.
SpecProxyFair == SpecProxy /\ WF_vars(StartStep)

SpecRTC == InitSpecRTC /\ [][NextRTC]_vars

SpecRTCFlush == InitSpecRTC /\ [][NextRTCFlush]_vars

InitSpecRTCHook == InitSpecRTC /\ component = "useVoiceWebRTC"

SpecRTCHook == InitSpecRTCHook /\ [][NextRTCHook]_vars

(***************************************************************************)
(* Claims about the audio playback scheduler.                              *)
(***************************************************************************)

\* The ids of the units created so far and of the chunks still queued.
ScheduledIds == [i \in 1..Len(sources) |-> sources[i].id]
QueuedIds == [i \in 1..Len(audioQueue) |-> audioQueue[i].id]

\* Every chunk fed so far is either scheduled once or still queued once, in
\* arrival order.
InArrivalOrder == ScheduledIds \o QueuedIds = [i \in 1..Len(fedChunks) |-> i]

C2_InterruptionResets ==
  /\ stopFresh =>
       /\ audioQueue = <<>>
       /\ activeSources = {}
       /\ nextPlayTime = Unset
       /\ \A i \in 1..Len(sources) : sources[i].st # "scheduled"
  /\ \A i \in 1..Len(sources) :
       sources[i].afterStop => sources[i].start = sources[i].at

\* A unit was stopped by an interruption before its end, and the next unit was
\* scheduled at the clock, earlier than the cursor the interruption discarded.
C2_Witness ==
  \E i \in 2..Len(sources) :
    /\ sources[i].afterStop
    /\ sources[i - 1].st \in {"stopped", "stoppedEnded"}
    /\ sources[i].start = sources[i].at
    /\ sources[i].start < sources[i - 1].end

(***************************************************************************)
(* Claims about the reconnecting control channel.                          *)
(***************************************************************************)

\* The last event was the close, with an abnormal code, of the channel's
\* current transport, while the channel was enabled and neither disabled nor
\* disconnected by its user.
AbnormalCloseWhileEnabled ==
  /\ wsLast.code \notin {0, NormalClosure}
  /\ wsLast.current
  /\ wsLast.enabled
  /\ ~wsLast.userClosed

\* C3: every abnormal closure of the transport of an enabled channel that was
\* not closed intentionally arms the reconnect timer, the first closure and
\* the later ones alike.
C3_EveryAbnormalCloseReconnects ==
  AbnormalCloseWhileEnabled => reconnectTimeoutRef # 0

\* C4: a close event with code 1000 arms no reconnect timer, changes no
\* reconnect trigger and creates no transport, and a pending reconnect timer
\* was never armed by a close event with code 1000.
C4_NormalCloseNeverReconnects ==
  /\ wsLast.code = NormalClosure =>
       /\ reconnectTimeoutRef = wsLast.timer
       /\ reconnectTrigger = wsLast.trigger
       /\ Len(sockets) = wsLast.nsock
  /\ reconnectTimeoutRef # NormalClosure

\* The current transport of an enabled channel closed with code 1000 while no
\* timer was pending and the channel was not marked intentionally closed:
\* only the code kept the timer from being armed.
C4_Witness ==
  /\ wsLast.code = NormalClosure
  /\ wsLast.current
  /\ wsLast.enabled
  /\ ~wsLast.intentional
  /\ wsLast.timer = 0
  /\ reconnectTimeoutRef = 0

(***************************************************************************)
(* Claims about the streaming proxy.                                       *)
(***************************************************************************)

\* C5: once the caller has cancelled, whatever start() was doing at that
\* moment, the upstream abort signal is set (cancel() sets it in its own step)
\* and the downstream stream holds no chunk enqueued after the cancellation.
C5_CancelAbortsUpstream ==
  cancelInfo.done =>
    /\ aborted
    /\ Len(dsWritten) = cancelInfo.written

\* The caller cancelled after data had been relayed and while a read had just
\* resolved; the relay loop went on and its write was refused.
C5_Witness ==
  /\ cancelInfo.done
  /\ cancelInfo.pc = "resolved"
  /\ cancelInfo.written > 0
  /\ pxPc = "threw"
  /\ aborted

\* The caller had not cancelled when start() handled the upstream failure.
CallerPresentAtFailure == ~cancelInfo.done \/ cancelInfo.pc = "done"

\* C6: when the upstream call has failed for a reason other than cancellation
\* and start() has handled the failure for a caller that is still there,
\* exactly one synthetic error event was written downstream, as a data line,
\* it is the last thing written, and the downstream stream was closed.
C6_UpstreamFailureReported ==
  (failure # "none" /\ pxPc \in {"done", "threw"} /\ CallerPresentAtFailure) =>
    /\ pxPc = "done"
    /\ dsWritten # <<>>
    /\ dsWritten[Len(dsWritten)] = ErrorEvent
    /\ StartsWithData(ErrorEvent)
    /\ Cardinality({i \in 1..Len(dsWritten) : dsWritten[i] = ErrorEvent}) = 1
    /\ dsState \in {"closing", "closed"} \/ cancelInfo.done

\* A read failed after a data line had been relayed: the error event follows
\* the data line and the stream is closed.
C6_Witness ==
  /\ failure = "read"
  /\ ~cancelInfo.done
  /\ pxPc = "done"
  /\ Len(dsWritten) >= 2
  /\ dsWritten[Len(dsWritten)] = ErrorEvent
  /\ dsState \in {"closing", "closed"}

(***************************************************************************)
(* Claims about the WebRTC session managers and their candidate batchers.  *)
(***************************************************************************)

\* The last run of flushCandidates met a batch all of whose candidates were
\* discovered under the session id in force when the timer fired.
FlushedBatchOfKnownSession ==
  /\ lastFlush.ran
  /\ lastFlush.batch # <<>>
  /\ lastFlush.session # 0
  /\ \A i \in 1..Len(lastFlush.batch) :
       lastFlush.batch[i].sid = lastFlush.session

\* C7: candidates discovered while a session id is known, each before the
\* debounce timer of the one before fires, are sent when the timer fires in
\* exactly one flush request, which carries all of them in discovery order.
C7_OneFlushCarriesAll ==
  FlushedBatchOfKnownSession =>
    lastFlush.sent = <<[session |-> lastFlush.session,
                        candidates |-> lastFlush.batch]>>

\* C8: a debounce timer that fires while no session id is known sends nothing
\* and leaves every pending candidate in the batch.
C8_FlushWithoutSessionKeepsBatch ==
  lastFlush.ran /\ lastFlush.session = 0 =>
    /\ lastFlush.sent = <<>>
    /\ lastFlush.left = lastFlush.batch

\* C9: state is "connected" only because the transport reported established
\* connectivity, never because the answer was received and applied.
C9_ConnectedOnlyByTransport ==
  state = "connected" => connectedBy = "transport"

\* C10: when a startConnection() call sends its offer, every connection created
\* by an earlier call is closed and every track of an earlier call is stopped,
\* wherever the earlier call was suspended when the later one was made.
C10_PreviousTornDownBeforeOffer ==
  \A k \in 1..Len(calls) :
    calls[k].offered =>
      /\ calls[k].openAtOffer = {}
      /\ calls[k].liveAtOffer = {}

\* The calls whose RTCPeerConnection is created and not closed.
OpenTransports == {k \in 1..Len(calls) : calls[k].pc = "open"}

\* C11: at every moment at most one RTCPeerConnection created by the session
\* manager is open, whatever the interleaving of start, stop and the suspended
\* continuations of earlier startConnection() calls.
C11_AtMostOneTransportOpen == Cardinality(OpenTransports) <= 1

\* stopConnection() was called and startConnection() has not been called since.
Stopped == lastCall \in {"stop", "stopAgain"}

\* C12: after stopConnection() returns and until the next startConnection(),
\* state is "idle", the session id is cleared, no RTCPeerConnection is open and
\* no captured local track is live, wherever a startConnection() call was
\* suspended when stopConnection() was called.
C12_StoppedStaysTornDown ==
  Stopped =>
    /\ state = "idle"
    /\ sessionIdRef = 0
    /\ OpenTransports = {}
    /\ \A k \in 1..Len(calls) : calls[k].local # "live"

FailureStep ==
  \E k \in 1..Len(calls) :
    \/ calls'[k].pos = "caught" /\ calls[k].pos # "caught"
    \/ calls'[k].conn = "failed" /\ calls[k].conn # "failed"

\* The latest startConnection() call has failed, or its connection has: the
\* caller has not called startConnection() since that failure.
LatestStartFailed ==
  /\ calls # <<>>
  /\ \/ calls[Len(calls)].pos = "caught"
     \/ calls[Len(calls)].conn = "failed"

\* A step that sends a negotiation request: an offer or a candidate flush.
RequestStep ==
  \/ \E k \in 1..Len(calls) : calls'[k].offered /\ ~calls[k].offered
  \/ lastFlush' # lastFlush /\ lastFlush'.ran /\ lastFlush'.sent # <<>>

FailureMovesToError ==
  FailureStep => state' = "error" /\ errorMessage' # "null"

NoRequestAfterFailure ==
  LatestStartFailed /\ Len(calls') = Len(calls) => ~RequestStep

\* C14: in the screen-stream session manager every failure of
\* startConnection() and every "failed" report of a connection moves state to
\* "error" with a message, and no negotiation request is sent after it until
\* startConnection() is called again.
C14_FailureIsTerminal ==
  [][ScreenStream => FailureMovesToError /\ NoRequestAfterFailure]_vars

(***************************************************************************)
(* More claims about the audio playback scheduler.                         *)
(***************************************************************************)

\* C15: audio_playback_complete is sent only by a step after which no unit is
\* active, every unit created has ended or was stopped, the queue is empty and
\* the cursor is unset.
C15_CompleteOnlyWhenAllDone ==
  [][completeSignals' # completeSignals =>
       /\ activeSources' = {}
       /\ \A i \in 1..Len(sources') : sources'[i].st # "scheduled"
       /\ audioQueue' = <<>>
       /\ nextPlayTime' = Unset]_vars

\* Two chunks of different durations were scheduled back to back, both have
\* ended, and the signal was sent once.
C15_Witness ==
  /\ completeSignals = 1
  /\ Len(sources) = 2
  /\ \A i \in 1..2 : sources[i].st = "ended"
  /\ sources[2].start = sources[1].end
  /\ sources[1].end - sources[1].start # sources[2].end - sources[2].start
  /\ now >= sources[2].end

(***************************************************************************)
(* More claims about the reconnecting voice WebSocket hook.                *)
(***************************************************************************)

\* The effect has run for isEnabled = false and isEnabled is still false.
DisabledInEffect == ~isEnabled /\ effectDeps.ran /\ ~effectDeps.isEnabled

\* C16: from the effect's run for isEnabled = false until isEnabled is true
\* again, no socket is open or connecting, no reconnect timer is pending and
\* the hook reports neither connected nor connecting, whatever socket events
\* arrive.
C16_DisabledMeansDisconnected ==
  DisabledInEffect =>
    /\ \A w \in 1..Len(sockets) : sockets[w].st \notin {"OPEN", "CONNECTING"}
    /\ reconnectTimeoutRef = 0
    /\ ~isConnected
    /\ ~isConnecting

\* The client closes socket w, which was open, in this step.
ClosesOpen(w) == sockets[w].st = "OPEN" /\ sockets'[w].st = "CLOSING"

\* C17: whenever the hook closes an open socket (the effect's run for
\* isEnabled = false and disconnect() are the operations that do), "stop" is
\* the last message sent on that socket before the close, and by then
\* intentionallyDisconnectedRef is set and no reconnect timer is pending.
C17_StopSentBeforeClose ==
  [][\A w \in 1..Len(sockets) :
       ClosesOpen(w) =>
         /\ sockets'[w].sent = Append(sockets[w].sent, "stop")
         /\ intentionallyDisconnectedRef'
         /\ reconnectTimeoutRef' = 0]_vars

\* The state of the hook that its code reads or writes.
ChannelState == <<isEnabled, reconnectTrigger, effectDeps, effectCleanup, wsRef,
                  sockets, reconnectTimeoutRef, connectingRef,
                  intentionallyDisconnectedRef, isConnected, isConnecting>>

\* No socket has been sent a message of a call made while wsRef's socket was
\* not open.
NoDroppedTransmitted ==
  \A w \in 1..Len(sockets) : \A i \in 1..Len(sockets[w].sent) :
    sockets[w].sent[i] \notin dropped

\* C18: a sendText/sendMessage call made while wsRef names no open socket
\* changes nothing of the hook's state (nothing is transmitted), and its
\* message is never transmitted later, on any socket.
C18_SendWhileNotOpenIsNoOp ==
  /\ []NoDroppedTransmitted
  /\ [][(sendCount' # sendCount /\ ~(wsRef # 0 /\ sockets[wsRef].st = "OPEN"))
         => UNCHANGED ChannelState]_vars

\* A first message was sent while the socket was connecting; the socket then
\* opened and carried the second message only.
C18_Witness ==
  /\ dropped = {"1"}
  /\ wsRef # 0
  /\ sockets[wsRef].st = "OPEN"
  /\ sockets[wsRef].sent = <<"2">>

(***************************************************************************)
(* More claims about the streaming proxy.                                  *)
(***************************************************************************)

\* The bytes the reads have delivered so far, whatever the chunks were.
RECURSIVE Flatten(_)
Flatten(cs) == IF cs = <<>> THEN <<>> ELSE Head(cs) \o Flatten(Tail(cs))

\* The chunks the relay loop has processed: all but the one it is about to.
Processed ==
  IF pxPc = "resolved" /\ readResult.kind = "value"
  THEN SubSeq(chunks, 1, Len(chunks) - 1) ELSE chunks

\* The newline-terminated lines of text, each with its newline, in order.
TerminatedLines(text) ==
  LET nl == {i \in 1..Len(text) : text[i] = "\n"}
      pos(k) == CHOOSE i \in nl : Cardinality({j \in nl : j < i}) = k - 1
  IN [k \in 1..Cardinality(nl) |->
        SubSeq(text, IF k = 1 THEN 1 ELSE pos(k - 1) + 1, pos(k))]

\* What the claim expects downstream for the bytes delivered: the text of
\* the bytes taken as one piece, its terminated lines, those with the prefix.
ExpectedOutput(bytes) ==
  SelectSeq(TerminatedLines(DecodeBytes(<<>>, bytes).text), StartsWithData)

\* The relay has neither failed nor been cancelled.
Relaying == ~cancelInfo.done /\ failure = "none" /\ pxPc # "threw"

\* C19: while the relay neither failed nor was cancelled, the chunks written
\* downstream are exactly the newline-terminated "data: " lines of the bytes
\* processed so far, each once, in order, each with one newline, whatever the
\* read chunks were: a line is written only once its newline has been read,
\* and at the end an unterminated fragment has not been written.
C19_OutputIndependentOfChunking ==
  Relaying => dsWritten = ExpectedOutput(Flatten(Processed))

\* A body read to its end in four chunks that cut the first line inside its
\* prefix and after its payload; the unterminated last line is not written.
C19_Witness ==
  /\ Relaying
  /\ pxPc = "done"
  /\ chunks = << <<"d">>, <<":", "x">>, <<"\n", "\n", "d">>, <<":", "x">> >>
  /\ dsWritten = << <<"d", ":", "x", "\n">> >>

\* controller.close() has been called, or the caller has cancelled.
DownstreamEnded == dsState \in {"closing", "closed", "cancelled"}

\* A stream that was closed ends with the last data line of the whole body,
\* or with the error event of the failure.
ClosedAfterLastLineOrError ==
  dsState \in {"closing", "closed"} =>
    IF failure = "none"
    THEN upstream = <<>> /\ dsWritten = ExpectedOutput(Flatten(chunks))
    ELSE dsWritten # <<>> /\ dsWritten[Len(dsWritten)] = ErrorEvent

\* C20: when the upstream call and its reads settle, the downstream stream
\* ends in every behaviour: it is closed, after the last data line or after
\* an error event, unless the caller cancelled it first.
C20_DownstreamEnds ==
  /\ <>DownstreamEnded
  /\ []ClosedAfterLastLineOrError

\* A read failed after one data line was relayed; the error event followed
\* and the caller has read the stream to its end.
C20_Witness ==
  /\ failure = "read"
  /\ pxPc = "done"
  /\ dsState = "closed"
  /\ Len(dsWritten) = 2
  /\ dsWritten[2] = ErrorEvent

(***************************************************************************)
(* Claims about the reconnect timer of the control channel.                *)
(***************************************************************************)

\* C21: at most one reconnect timer is pending at any time, and
\* reconnectTimeoutRef names it, however many close events arrive.
C21_AtMostOneReconnectTimer ==
  /\ pendingTimers <= 1
  /\ pendingTimers = 1 <=> reconnectTimeoutRef # 0

\* A second socket closes abnormally while the timer armed by the close of
\* the first is still pending.
C21_Witness ==
  /\ pendingTimers = 1
  /\ wsLast.code = 1006
  /\ wsLast.timer # 0
  /\ ~wsLast.intentional

\* The effect runs because reconnectTrigger changed (the timer's
\* setReconnectTrigger), isEnabled being what it was at the last run, and
\* creates a socket.
TimerOpensTransport ==
  /\ effectDeps.ran
  /\ effectDeps.isEnabled = isEnabled
  /\ effectDeps.reconnectTrigger # reconnectTrigger
  /\ effectDeps'.reconnectTrigger = reconnectTrigger
  /\ Len(sockets') = Len(sockets) + 1

\* C22: the effect run that opens a transport for the reconnect timer starts,
\* and leaves the hook, with isEnabled true and intentionallyDisconnectedRef
\* false, and neither a disable nor a disconnect() came before it since the
\* last enable.
C22_TimerOpensOnlyWhileWanted ==
  [][TimerOpensTransport =>
       /\ isEnabled
       /\ ~userClosed
       /\ ~intentionallyDisconnectedRef
       /\ ~intentionallyDisconnectedRef']_vars

(***************************************************************************)
(* Claims about the abort token of the streaming proxy.                    *)
(***************************************************************************)

\* start() has ended: the upstream call completed or failed and the
\* downstream stream was closed by lines 66 or 77.
UpstreamCompleted(pc) == pc \in {"done", "threw"}

\* C23 as stated: the abort token is triggered exactly when the caller
\* disconnected before the upstream call had completed.
C23_AbortedIffCancelBeforeCompletion ==
  aborted <=> (cancelInfo.done /\ ~UpstreamCompleted(cancelInfo.pc))

\* C23: the abort token is triggered exactly when the caller cancelled the
\* downstream stream before it was closed, which includes a cancel after the
\* upstream call completed while relayed chunks are still unread; completion
\* and upstream errors never trigger it.
C23_AbortedIffCancelled ==
  /\ aborted <=> cancelInfo.done
  /\ aborted <=> dsState = "cancelled"
  /\ (UpstreamCompleted(pxPc) /\ ~cancelInfo.done) => ~aborted

\* The caller cancelled after the upstream call had completed, with a chunk
\* still unread: the token is triggered.
C23_Witness ==
  /\ aborted
  /\ cancelInfo.done
  /\ cancelInfo.pc = "done"
  /\ failure = "none"
  /\ dsWritten # <<>>

(***************************************************************************)
(* Claims about enabling the control channel and its messages.             *)
(***************************************************************************)

\* The effect runs for an isEnabled that became true: at mount, or after a
\* run for isEnabled = false.
EnableTakesEffect ==
  /\ isEnabled
  /\ ~effectDeps.ran \/ ~effectDeps.isEnabled
  /\ effectDeps'.ran /\ effectDeps'.isEnabled

\* C24: the effect's run for an isEnabled that became true leaves
\* intentionallyDisconnectedRef false and wsRef naming a socket that is
\* connecting or open, on the first enable and on every later one.
C24_EnableOpensAndClearsIntent ==
  [][EnableTakesEffect =>
       /\ ~intentionallyDisconnectedRef'
       /\ wsRef' # 0
       /\ sockets'[wsRef'].st \in {"CONNECTING", "OPEN"}]_vars

(***************************************************************************)
(* More claims about the WebRTC session managers.                          *)
(***************************************************************************)

\* C25: every candidate a flush request carries under session id S was
\* discovered by the connection of the call that obtained S (the model gives
\* the session of call k the id k), never by the connection of an earlier
\* call that was stopped or replaced.
C25_CandidatesOfTheirSession ==
  lastFlush.ran =>
  \A r \in 1..Len(lastFlush.sent) :
    \A i \in 1..Len(lastFlush.sent[r].candidates) :
      lastFlush.sent[r].candidates[i].pc = lastFlush.sent[r].session

(***************************************************************************)
(* More claims about the audio playback scheduler.                         *)
(***************************************************************************)

\* The later of the cursor and the clock; an unset cursor counts for nothing.
LaterOf(cursor, clock) == IF cursor = Unset \/ cursor < clock THEN clock ELSE cursor

\* The cursor a unit created in this step met: nextPlayTimeRef for the first
\* unit of the drain, the end of the unit before it for the others.
CursorBefore(i) == IF i = Len(sources) + 1 THEN nextPlayTime ELSE sources'[i - 1].end

\* C26: a step that leaves the cursor set never moves it backward, every unit
\* created starts at the later of the cursor it met and the clock's time, so
\* never before the clock, and the cursor then stands at the end of the last
\* unit.
C26_CursorMonotoneAndClamped ==
  [][/\ (nextPlayTime # Unset /\ nextPlayTime' # Unset) => nextPlayTime' >= nextPlayTime
     /\ \A i \in (Len(sources) + 1)..Len(sources') :
          /\ sources'[i].start = LaterOf(CursorBefore(i), now)
          /\ sources'[i].start >= now
     /\ Len(sources') > Len(sources) =>
          nextPlayTime' = sources'[Len(sources')].end]_vars

\* The second unit was scheduled when the clock had run past the end of the
\* first and the cursor still stood there (onended had not fired, nothing was
\* interrupted): it starts at the clock.
C26_Witness ==
  /\ ~interrupted
  /\ Len(sources) = 2
  /\ sources[1].st = "scheduled"
  /\ sources[2].at > sources[1].end
  /\ sources[2].start = sources[2].at
  /\ nextPlayTime = sources[2].end

\* The processAudioQueue calls that have passed the guard of line 90 and not
\* reached line 182: the loop itself runs to its end within one step, so
\* these are the calls suspended in await resume(), those whose context was
\* closed meanwhile included.
DrainsInProgress == drainsSuspended + drainsOrphaned

\* C27: at most one drain of the audio queue is in progress at any time.
C27_AtMostOneDrain == DrainsInProgress <= 1

\* Chunk id is in the audio queue.
Queued(id) == \E k \in 1..Len(audioQueue) : audioQueue[k].id = id

\* The units created for chunk id.
UnitsOf(ss, id) == {i \in 1..Len(ss) : ss[i].id = id}

\* A chunk leaves the queue in a step either because the loop created its one
\* unit or because stopAllAudio emptied the queue.
LeavesQueueProperly(id) ==
  (Queued(id) /\ ~Queued(id)') =>
    \/ UnitsOf(sources, id) = {} /\ Cardinality(UnitsOf(sources', id)) = 1
    \/ stopFresh' /\ UnitsOf(sources', id) = {}

HandlerOfType ==
  [t \in {"user_speech", "agent_response", "step", "error", "audio_chunk",
          "interruption"} |->
     CASE t = "user_speech" -> "onUserSpeech"
       [] t = "agent_response" -> "onAgentResponse"
       [] t = "step" -> "onStep"
       [] t = "error" -> "onError"
       [] t = "audio_chunk" -> "onAudioChunk"
       [] t = "interruption" -> "onInterruption"]

\* C29: a message event calls at most one handler, the one of the message's
\* type, and calls it whenever it is registered; a message of unknown type
\* or with text that is not JSON calls none; and no message other than
\* ready changes the hook's state or its sockets.
C29_OneHandlerPerMessage ==
  [][dispatched' # NoDispatch =>
       /\ Len(dispatched'.invoked) <= 1
       /\ \A i \in 1..Len(dispatched'.invoked) :
            /\ dispatched'.msg \in DOMAIN HandlerOfType
            /\ dispatched'.invoked[i].h = HandlerOfType[dispatched'.msg]
       /\ (/\ dispatched'.msg \in DOMAIN HandlerOfType
           /\ HandlerOfType[dispatched'.msg] \in callbacksRef.has)
            => Len(dispatched'.invoked) = 1
       /\ dispatched'.msg \in {"unknown", "unparseable"} =>
            dispatched'.invoked = <<>>
       /\ UNCHANGED ChannelState
       /\ sockets'[dispatched'.sock].st = "OPEN"]_vars

\* A message that is not JSON arrived on the open socket of a connected
\* hook: nothing was called and the hook is still connected.
C29_Witness ==
  /\ dispatched # NoDispatch
  /\ dispatched.msg = "unparseable"
  /\ dispatched.invoked = <<>>
  /\ isConnected
  /\ wsRef = dispatched.sock
  /\ sockets[wsRef].st = "OPEN"

\* C30 as stated: a handler called for a message is the one of the latest
\* render, and a render with new handlers changes neither the sockets nor
\* what the connection effect depends on.
C30_DeliveredToLatestRender ==
  /\ [](dispatched # NoDispatch =>
          \A i \in 1..Len(dispatched.invoked) :
            dispatched.invoked[i].v = dispatched.props.v)
  /\ [][(callbacksProps' # callbacksProps \/ callbacksRef' # callbacksRef)
          => UNCHANGED ChannelState]_vars

\* C30: a handler called for a message is the one stored in callbacksRef at
\* dispatch: the one of the latest render once the effect that stores the
\* handlers has run for it, the one of the render before until then; it is
\* the one the socket was created with only if that is still the stored one.
\* Replacing handlers changes neither the sockets nor what the connection
\* effect depends on.
C30_DeliveredToStoredHandler ==
  /\ [](dispatched # NoDispatch =>
          \A i \in 1..Len(dispatched.invoked) :
            /\ dispatched.invoked[i].v = dispatched.stored.v
            /\ dispatched.stored = dispatched.props =>
                 dispatched.invoked[i].v = dispatched.props.v
            /\ dispatched.invoked[i].v >= dispatched.props.v - 1)
  /\ [][(callbacksProps' # callbacksProps \/ callbacksRef' # callbacksRef)
          => UNCHANGED ChannelState]_vars

\* A message was delivered on the first and only socket to a handler that
\* replaced the one the socket was created with.
C30_Witness ==
  /\ dispatched # NoDispatch
  /\ dispatched.invoked # <<>>
  /\ dispatched.invoked[1].v = 1
  /\ dispatched.atCreation.v = 0
  /\ dispatched.sock = 1
  /\ Len(sockets) = 1
  /\ reconnectTrigger = 0

(***************************************************************************)
(* Claims about the error state of the screen-stream session managers.     *)
(***************************************************************************)

\* C31: in the screen-stream session managers the error message is set only
\* while the state is "error".
C31_MessageOnlyInError ==
  ScreenStream => (errorMessage # "null" => state = "error")

\* startConnection() up to its first await, as a function of the session it is
\* called in: stopConnection(), then setState("connecting") and the call's
\* first record (part_007 80-89, narration-display.tsx 112-118).
StartOf(s) ==
  [StopOf(s) EXCEPT
     !.state = "connecting",
     !.calls = Append(@, NewCall),
     !.pcRef = IF NewCall.pc = "open" THEN Len(s.calls) + 1 ELSE 0,
     !.srcObject = IF NewCall.pc = "open" THEN Len(s.calls) + 1 ELSE 0]

\* The session as it would be in state idle, everything else alike.
AsIdle(s) == [s EXCEPT !.state = "idle", !.errorMessage = "null"]

\* C32: a start() in state error ends in the state that the same start() in
\* state idle ends in: message and session id cleared, the transport of the
\* failed session closed, the flush timer cleared, state connecting, and the
\* new call at its first step, so what follows is the same.
C32_StartFromErrorLikeIdle ==
  [][(StartConnection /\ state = "error") =>
       /\ Session' = StartOf(AsIdle(Session))
       /\ UNCHANGED <<pendingCandidatesRef, discovered, lastFlush, connectedBy>>
       /\ errorMessage' = "null" /\ sessionIdRef' = 0 /\ flushTimerRef' = FALSE
       /\ state' = "connecting"
       /\ pcRef # 0 => calls'[pcRef].pc = "closed"
       /\ calls'[Len(calls')] = NewCall]_vars

\* A second call started by Retry, which BrowserScreenStream offers in state
\* error only, after the first call was caught.
C32_Witness ==
  /\ component = "BrowserScreenStream"
  /\ lastCall = "start" /\ state = "connecting"
  /\ Len(calls) = 2 /\ calls[1].pos = "caught" /\ calls[1].pc = "closed"
  /\ calls[2].pos = NewCall.pos

(***************************************************************************)
(* Claims about candidate requests that fail or are still in flight.       *)
(***************************************************************************)

\* Request r is rejected in this step.
FlushFails(r) == requests[r].st = "pending" /\ requests'[r].st = "failed"

SomeFlushFailed == \E r \in 1..Len(requests) : requests[r].st = "failed"

\* The ids of the candidates request r carries.
CandidatesOf(r) ==
  {requests[r].candidates[i].id : i \in 1..Len(requests[r].candidates)}

\* C33: a rejected candidate request puts nothing back into the pending list,
\* sends no request again, and leaves state, session id and timer as they
\* are; no later request carries a candidate of a rejected one; after a
\* rejection candidates are still appended with a new timer, and the timer
\* still sends what flushCandidates sends of the pending list.
C33_FailedFlushIsDropped ==
  /\ [][\A r \in 1..Len(requests) :
          FlushFails(r) =>
            /\ pendingCandidatesRef' = pendingCandidatesRef
            /\ Len(requests') = Len(requests)
            /\ UNCHANGED <<state, errorMessage, sessionIdRef, flushTimerRef,
                           pcRef, calls>>]_vars
  /\ [](\A r, q \in 1..Len(requests) :
          r < q /\ requests[r].st = "failed" =>
            CandidatesOf(r) \cap CandidatesOf(q) = {})
  /\ [][SomeFlushFailed =>
          /\ discovered' # discovered =>
                /\ Len(pendingCandidatesRef') = Len(pendingCandidatesRef) + 1
                /\ pendingCandidatesRef'[Len(pendingCandidatesRef')].id = discovered'
                /\ flushTimerRef'
          /\ lastFlush' # lastFlush =>
                /\ requests' =
                     requests \o InFlight(FlushRequests(pendingCandidatesRef))
                /\ pendingCandidatesRef' = <<>>
                /\ (pendingCandidatesRef # <<>> /\ sessionIdRef # 0 =>
                      Len(requests') = Len(requests) + 1)]_vars

\* The first request was rejected; a candidate discovered later went out
\* with the second request, which succeeded.
C33_Witness ==
  /\ Len(requests) = 2
  /\ requests[1].st = "failed" /\ requests[2].st = "ok"
  /\ pendingCandidatesRef = <<>>
  /\ CandidatesOf(1) = {1} /\ CandidatesOf(2) = {2}

SomeFlushInFlight == \E r \in 1..Len(requests) : requests[r].st = "pending"

PendingIds ==
  {pendingCandidatesRef[i].id : i \in 1..Len(pendingCandidatesRef)}

\* C34: a candidate discovered while a request is in flight leaves the
\* requests as they are and is appended to the pending list with the timer
\* armed; a pending candidate is in no request, and no candidate is in two
\* requests or twice in one.
C34_LateCandidateInNextBatch ==
  /\ [][SomeFlushInFlight /\ discovered' # discovered =>
          /\ requests' = requests
          /\ pendingCandidatesRef'[Len(pendingCandidatesRef')].id = discovered'
          /\ Len(pendingCandidatesRef') = Len(pendingCandidatesRef) + 1
          /\ flushTimerRef']_vars
  /\ [](\A r \in 1..Len(requests) :
          /\ CandidatesOf(r) \cap PendingIds = {}
          /\ Cardinality(CandidatesOf(r)) = Len(requests[r].candidates)
          /\ \A q \in 1..Len(requests) :
               r # q => CandidatesOf(r) \cap CandidatesOf(q) = {})

\* The request with candidate 1 is in flight; candidate 2 is pending with a
\* timer.
C34_Witness ==
  /\ Len(requests) = 1 /\ requests[1].st = "pending"
  /\ CandidatesOf(1) = {1}
  /\ PendingIds = {2} /\ flushTimerRef

(***************************************************************************)
(* Claims about the sockets of the reconnecting voice WebSocket hook.      *)
(***************************************************************************)

\* The sockets the hook created that are open or connecting.
LiveSockets ==
  {w \in 1..Len(sockets) : sockets[w].st \in {"OPEN", "CONNECTING"}}

\* C35: at every moment at most one WebSocket created by the hook is open or
\* connecting.
C35_AtMostOneLiveSocket == Cardinality(LiveSockets) <= 1

\* The hook reports connected only while wsRef holds an open socket.
ConnectedMeansOpen ==
  isConnected => wsRef # 0 /\ sockets[wsRef].st = "OPEN"

\* Socket w, which is not the one wsRef holds, gets its close event.
StaleClose(w) ==
  /\ wsRef # 0 /\ w # wsRef
  /\ sockets[w].st # "CLOSED" /\ sockets'[w].st = "CLOSED"

\* C36: while isConnected is true wsRef holds an open socket, and the close
\* event of a socket that was replaced changes neither wsRef nor the
\* reported state.
C36_ConnectedMeansOpenSocket ==
  /\ []ConnectedMeansOpen
  /\ [][\A w \in 1..Len(sockets) :
          StaleClose(w) => UNCHANGED <<wsRef, isConnected, isConnecting>>]_vars

(***************************************************************************)
(* More claims about the audio scheduler.                                  *)
(***************************************************************************)

\* The end event of unit i, which stopAllAudio stopped, is handled.
StoppedUnitEnds(i) ==
  sources[i].st = "stopped" /\ sources'[i].st = "stoppedEnded"

\* C37: the end event of a unit that stopAllAudio stopped sends no
\* audio_playback_complete.
C37_InterruptionSendsNoCompletion ==
  [][\A i \in 1..Len(sources) :
       StoppedUnitEnds(i) => completeSignals' = completeSignals]_vars

\* C38: the in-progress guard is set only while a drain is suspended in
\* resume() (a drain that executes does so within one step): no exit of a drain
\* leaves it set.
C38_GuardOnlyWhileDraining == isProcessing => DrainsInProgress > 0

(***************************************************************************)
(* A claim about the enable effect of the voice WebRTC hook.               *)
(***************************************************************************)

\* C39: after disconnect() or the server's closed event, and until the caller
\* changes isEnabled, the hook is idle and the last of its start and stop
\* calls is not a start.
C39_StoppedStaysIdle ==
  stoppedBy # "none" => state = "idle" /\ lastCall # "start"

===========================================================================
